---- MODULE Spec2Model ----
(***************************************************************************)
(* gem-imager DFU flashing: the flash campaign of DfuThread::run (final    *)
(* revision, src/src/dfuthread.cpp:520-784) with image acquisition         *)
(* (downloadImage, extractXzFile), the single-slot cache, and the device   *)
(* session of DfuWrapper (src/src/dfuwrapper.cpp).  The older, script-based *)
(* revision of run() (src/src/dfuthread.cpp:24-239) is a second            *)
(* specification, ScriptSpec, over the same variables.                     *)
(*                                                                         *)
(* The campaign is one sequential task: pc is its position.  Every call of *)
(* an external primitive (libusb, dfu-util, network, lzma, file system,    *)
(* sleep) is one step whose result is drawn from a small set.              *)
(***************************************************************************)
EXTENDS Integers, Sequences, FiniteSets, TLC

(* ------------------------------ bounds --------------------------------- *)
\* chunks (readyRead + downloadProgress rounds) of one complete fetch
MaxChunks == 2
\* output buffers written by a complete decompression
MaxOutBufs == 3
\* output buffers that add up to the 4 GiB reference size of the progress
\* formula of extractXzFile (one buffer of the model stands for 4 GiB / RefBufs)
RefBufs == 2

(* --------------------------- program constants ------------------------- *)
\* a retry loop that stops one attempt early
maxAttemptsOneShort == 15 - 1
maxAttempts == 15
RetryIntervalSec == 1
DefaultXferSize == 1024
SettleSec == 5
ImageWaitSec == 10
BootBase == 55
BootRange == 20
BootCeiling == 75
LIBUSB_ERROR_IO == -1
LIBUSB_ERROR_NO_DEVICE == -4
LIBUSB_ERROR_NOT_FOUND == -5
TI_VENDOR_ID == 1105
TI_PRODUCT_ID == 24933

files == <<"tiboot3.bin", "tispl.bin", "u-boot.img">>
altSettingNames == <<"bootloader", "tispl.bin", "u-boot.img">>
RawemmcAlt == "rawemmc"
NumFiles == Len(files)
\* index of the image stage in the per-stage bookkeeping
ImgStage == NumFiles + 1
Stages == 1..ImgStage

\* DFU protocol states a status query can report (dfu.h); OTHER stands for
\* every state the session has no branch for (dfuDNBUSY, appIDLE, ...)
DfuStates == {"dfuIDLE", "dfuERROR", "dfuDNLOAD_IDLE", "dfuUPLOAD_IDLE", "OTHER"}
\* results of dfuload_do_dnload
XferResults == {0, 4096, LIBUSB_ERROR_IO, LIBUSB_ERROR_NO_DEVICE, -99}
\* results of dfu_detach and libusb_reset_device
DetachResults == {0, LIBUSB_ERROR_IO}
ResetResults == {0, LIBUSB_ERROR_NOT_FOUND, LIBUSB_ERROR_NO_DEVICE, -99}
\* wTransferSize values a device can advertise
TransferSizes == {0, 64, 4096}

VARIABLES
    pc,          \* position of the campaign task
    info,        \* _board/_imageType/_distro: which are non-empty
    cache,       \* _cachingEnabled, _cachedFileHash, persisted marker, _cachefile
    fs,          \* files: cache slot, throwaway download, staging image
    paths,       \* _tempCompressedPath, _tempExtractedPath, extractedImagePath
    dl,          \* downloadImage locals
    xz,          \* extractXzFile locals
    i,           \* stage index of run()'s loop (1-based), ImgStage in the image stage
    currentProgress,
    dfu,         \* the DfuWrapper of the current stage (or none)
    usb,         \* dfu-util/libusb globals: dfu_root, match_* criteria
    attempt,     \* findDevice loop counter
    status,      \* struct dfu_status of downloadFile
    ev,          \* observer of the events emitted so far
    h,           \* observer of the current (most recent) session
    camp         \* observer of the campaign

vars == <<pc, info, cache, fs, paths, dl, xz, i, currentProgress, dfu, usb,
          attempt, status, ev, h, camp>>

(* ------------------------------ events --------------------------------- *)
\* The observer ev folds the emitted event stream: the percentage of the last
\* progressUpdate, whether the percentages so far never decreased / always
\* increased, how many success() and error() were emitted, and what was
\* emitted after a terminal event.
NoEvents ==
    [last |-> -1, mono |-> TRUE, strict |-> TRUE, success |-> 0, error |-> 0,
     progressAfterTerminal |-> FALSE, successAfterError |-> FALSE,
     errorAfterSuccess |-> FALSE]

\* emit progressUpdate(p, ...)
EmitProgress(e, p) ==
    [e EXCEPT !.last = p,
              !.mono = e.mono /\ (p >= e.last),
              !.strict = e.strict /\ (p > e.last),
              !.progressAfterTerminal = @ \/ (e.success + e.error > 0)]

\* emit error(msg)
EmitError(e) ==
    [e EXCEPT !.error = @ + 1,
              !.errorAfterSuccess = @ \/ (e.success > 0)]

\* emit success()
EmitSuccess(e) ==
    [e EXCEPT !.success = @ + 1,
              !.successAfterError = @ \/ (e.error > 0)]

(* ------------------------------- files --------------------------------- *)
\* A file is "absent", "empty" (size 0), "partial" (some bytes of the requested
\* image), "req" (all bytes of the requested image) or "other" (all bytes of a
\* different image).
FileStates == {"absent", "empty", "partial", "req", "other"}

\* QFileInfo f: f.exists() && f.isReadable() && f.size()
FileValid(f) == f \notin {"absent", "empty"}

\* QFile::remove
Removed(f) == "absent"

\* the file a path names: _cacheFileName, the throwaway download, the staging image
FileAt(path) ==
    CASE path = "cache" -> fs.cacheFile
      [] path = "tmp" -> fs.tmpFile
      [] path = "img" -> fs.img
      [] OTHER -> "absent"

WriteAt(f, path, content) ==
    CASE path = "cache" -> [f EXCEPT !.cacheFile = content]
      [] path = "tmp" -> [f EXCEPT !.tmpFile = content]
      [] path = "img" -> [f EXCEPT !.img = content]
      [] OTHER -> f

(* ------------------------------- cache --------------------------------- *)
\* DfuThread::initializeCache, run by the constructor: reads the persisted
\* switch and identity marker and drops the marker when the cache file is
\* missing, unreadable or empty.
initializeCache(enabledSetting, storedHash, cacheFile) ==
    IF storedHash # "" /\ ~FileValid(cacheFile)
    THEN [enabled |-> enabledSetting, hash |-> "", stored |-> "", fileOpen |-> FALSE]
    ELSE [enabled |-> enabledSetting, hash |-> storedHash, stored |-> storedHash,
          fileOpen |-> FALSE]

\* what the settings store and the cache slot can hold when a campaign object
\* is constructed: a marker is the identity of the image whose bytes the slot got
PersistedStates ==
    { p \in [enabled : BOOLEAN, stored : {"", "req", "other"},
             file : {"absent", "empty", "req", "other"}] :
        p.stored # "" => p.file \in {p.stored, "empty"} }

\* setImageInfo: which of board / image type / distro are non-empty
ImageInfos ==
    { [board |-> FALSE, imageType |-> FALSE, distro |-> FALSE],
      [board |-> TRUE, imageType |-> TRUE, distro |-> TRUE],
      [board |-> TRUE, imageType |-> TRUE, distro |-> FALSE] }

\* an acquisition condition that does not look at the distro
HasImageInfoLoose == info.board /\ info.imageType

\* run(): !_board.isEmpty() && !_imageType.isEmpty() && !_distro.isEmpty()
HasImageInfo == info.board /\ info.imageType /\ info.distro

NoSession ==
    [exists |-> FALSE, usbContext |-> FALSE, initialized |-> FALSE,
     dfuDevice |-> FALSE, dev_handle |-> FALSE, flagsAlt |-> FALSE,
     wTransferSize |-> 0, resetAfter |-> FALSE]

NoHist ==
    [probes |-> 0, sleeps |-> 0, foundAt |-> 0,
     claims |-> 0, releases |-> 0, altSets |-> 0,
     queries |-> 0, reported |-> <<>>, clears |-> 0, aborts |-> 0,
     transfers |-> 0, xferRet |-> 0, xferSize |-> 0, xferState |-> "none",
     detaches |-> 0, resets |-> 0, closes |-> 0, exits |-> 0,
     result |-> "none"]

NoDl == [received |-> 0, len |-> 0, total |-> 0, short |-> FALSE]
NoXz == [totalWritten |-> 0, lastProgress |-> 40]

Init ==
    /\ pc = "run"
    /\ info \in ImageInfos
    /\ \E p \in PersistedStates :
          /\ cache = initializeCache(p.enabled, p.stored, p.file)
          /\ fs = [cacheFile |-> p.file, tmpFile |-> "absent", img |-> "absent"]
    /\ paths = [tempCompressed |-> "", tempExtracted |-> "", extractedImage |-> ""]
    /\ dl = NoDl
    /\ xz = NoXz
    /\ i = 1
    /\ currentProgress = 0
    /\ dfu = NoSession
    /\ usb = [dfu_root |-> FALSE, match_vendor |-> -1, match_product |-> -1,
              match_iface_alt_name |-> "null"]
    /\ attempt = 0
    /\ status = "none"
    /\ ev = NoEvents
    /\ h = NoHist
    /\ camp = [sessions |-> 0, usbTouched |-> FALSE,
               filesChecked |-> FALSE, exists |-> [f \in 1..NumFiles |-> TRUE],
               acquisitionFailed |-> FALSE, fetched |-> FALSE, dlReported |-> FALSE,
               phase |-> [s \in Stages |-> "none"], waited |-> 0,
               lookup |-> "none", dlCalled |-> FALSE, retried |-> FALSE,
               liveSessions |-> 0, openHandles |-> 0, liveContexts |-> 0,
               fetchError |-> FALSE, slotWriteFailed |-> FALSE,
               markerSet |-> FALSE]

(* ----------------------- run(): image acquisition ----------------------- *)
\* the identity (hash of the file name) of the image this campaign asks for
expectedHash == "req"

\* between construction and run() the cache file can be deleted or truncated
\* by something else; run() therefore examines the file again
CacheFileLost ==
    /\ pc = "run"
    /\ FileValid(fs.cacheFile)
    /\ \E f \in {"absent", "empty"} : fs' = [fs EXCEPT !.cacheFile = f]
    /\ UNCHANGED <<pc, info, cache, paths, dl, xz, i, currentProgress, dfu, usb,
                   attempt, status, ev, h, camp>>

\* a lookup that never hits
useCachedNever == FALSE

\* run(): the cache lookup
useCached ==
    /\ cache.enabled
    /\ cache.hash # ""
    /\ cache.hash = expectedHash
    /\ FileValid(fs.cacheFile)

\* run() up to the cache lookup and its branch: a hit goes on to the
\* extraction, a miss to the choice of the download target
RunAcquireBegin ==
    /\ pc = "run"
    /\ IF ~HasImageInfo
       THEN /\ pc' = "prep"
            /\ UNCHANGED <<ev, paths, camp>>
       ELSE IF useCached
       THEN /\ ev' = EmitProgress(EmitProgress(ev, 5), 40)
            /\ paths' = [paths EXCEPT !.tempCompressed = "cache"]
            /\ pc' = "pre_extract"
            /\ camp' = [camp EXCEPT !.lookup = "hit"]
       ELSE /\ ev' = EmitProgress(ev, 5)
            /\ pc' = "dl_target"
            /\ camp' = [camp EXCEPT !.lookup = "miss"]
            /\ UNCHANGED paths
    /\ UNCHANGED <<info, cache, fs, dl, xz, i, currentProgress, dfu, usb, attempt,
                   status, h>>

\* a download that goes to the cache slot whatever the switch says
downloadTargetAlwaysCache(c) == "cache"

\* run() after a miss: `if (_cachingEnabled)` _tempCompressedPath is
\* _cacheFileName, else a file under the temp directory
downloadTarget(c) == IF c.enabled THEN "cache" ELSE "tmp"

\* run() after a miss: the download goes to the cache slot when caching is
\* enabled (an old cache file is removed first when the settings are writable)
\* and to a throwaway file otherwise
RunDownloadTarget ==
    /\ pc = "dl_target"
    /\ IF downloadTarget(cache) = "cache"
       THEN /\ paths' = [paths EXCEPT !.tempCompressed = "cache"]
            /\ \E writable \in BOOLEAN :
                  fs' = IF writable /\ fs.cacheFile # "absent"
                        THEN [fs EXCEPT !.cacheFile = Removed(@)]
                        ELSE fs
       ELSE /\ paths' = [paths EXCEPT !.tempCompressed = "tmp"]
            /\ UNCHANGED fs
    /\ pc' = "dl_open"
    /\ UNCHANGED <<info, cache, dl, xz, i, currentProgress, dfu, usb, attempt,
                   status, ev, h, camp>>

\* a download share that overshoots the 5-40 range
DownloadPercentageWide(received, total) == 5 + ((received * 45) \div total)

\* downloadImage: the percentage of a downloadProgress(received, total) callback
DownloadPercentage(received, total) == 5 + ((received * 35) \div total)

\* _writeCache(buf, len): ok is whether the write took all bytes
writeCache(c, ok) ==
    IF ~c.enabled \/ ~c.fileOpen \/ ok
    THEN c
    ELSE [c EXCEPT !.enabled = FALSE, !.fileOpen = FALSE]

\* downloadImage: start the request and open the output file
DlOpen ==
    /\ pc = "dl_open"
    /\ \E ok \in BOOLEAN, n \in 1..MaxChunks, known \in BOOLEAN :
          IF ok
          THEN /\ fs' = WriteAt(fs, paths.tempCompressed, "empty")
               /\ dl' = [received |-> 0, len |-> n, total |-> IF known THEN n ELSE 0,
                         short |-> FALSE]
               /\ pc' = "dl_loop"
          ELSE /\ pc' = "dl_ret_false"
               /\ UNCHANGED <<fs, dl>>
    /\ camp' = [camp EXCEPT !.dlCalled = TRUE]
    /\ UNCHANGED <<info, cache, paths, xz, i, currentProgress, dfu, usb, attempt,
                   status, ev, h>>

\* downloadImage, inside loop.exec(): one chunk arrives; the readyRead handler
\* writes it to the output file without looking at what write() returned
\* (outOk: the write took all bytes), mirrors it to the cache file when that
\* is open, and the downloadProgress handler reports it.  The event is recorded where the reply
\* raises the signal, i.e. in the order the handler invocations are posted;
\* received grows by one chunk per round and total is fixed for one reply
\* (0 when the server gives no length).
DlChunk ==
    /\ pc = "dl_loop"
    /\ dl.received < dl.len
    /\ \E outOk \in BOOLEAN, writeOk \in BOOLEAN :
          /\ cache' = writeCache(cache, writeOk)
          /\ fs' = IF cache.enabled /\ cache.fileOpen /\ ~writeOk
                   THEN [fs EXCEPT !.cacheFile = Removed(@)]
                   ELSE WriteAt(fs, paths.tempCompressed, "partial")
          /\ dl' = [dl EXCEPT !.received = @ + 1, !.short = @ \/ ~outOk]
          /\ camp' = [camp EXCEPT
                        !.dlReported = @ \/ dl.total > 0,
                        !.slotWriteFailed =
                            @ \/ (~outOk /\ paths.tempCompressed = "cache")]
    /\ ev' = IF dl.total > 0
             THEN EmitProgress(ev, DownloadPercentage(dl.received + 1, dl.total))
             ELSE ev
    /\ UNCHANGED <<pc, info, paths, xz, i, currentProgress, dfu, usb, attempt,
                   status, h>>

\* downloadImage after loop.exec(): the reply finished with or without error;
\* without error the file holds the whole archive unless a write fell short
DlFinish ==
    /\ pc = "dl_loop"
    /\ \E failed \in BOOLEAN :
          IF failed
          THEN /\ ev' = EmitError(ev)
               /\ pc' = "dl_ret_false"
               /\ camp' = [camp EXCEPT !.fetchError = TRUE]
               /\ UNCHANGED fs
          ELSE /\ dl.received = dl.len
               /\ fs' = WriteAt(fs, paths.tempCompressed,
                                IF dl.short THEN "partial" ELSE "req")
               /\ pc' = "dl_ret_true"
               /\ UNCHANGED <<ev, camp>>
    /\ dl' = NoDl
    /\ UNCHANGED <<info, cache, paths, xz, i, currentProgress, dfu, usb, attempt,
                   status, h>>

\* a failed acquisition that lacks the `return`
AcquisitionFailureFallsThrough == "prep"

\* run(): where the task goes after a failed download or extraction: the
\* `return` that follows emit error()
AfterAcquisitionFailure == "done"

\* run(): downloadImage returned false
RunDownloadFailed ==
    /\ pc = "dl_ret_false"
    /\ ev' = EmitError(ev)
    /\ fs' = IF cache.enabled /\ cache.fileOpen
             THEN [fs EXCEPT !.cacheFile = Removed(@)]
             ELSE fs
    /\ camp' = [camp EXCEPT !.acquisitionFailed = TRUE]
    /\ pc' = AfterAcquisitionFailure
    /\ UNCHANGED <<info, cache, paths, dl, xz, i, currentProgress, dfu, usb,
                   attempt, status, h>>

\* a marker update that does not look at _cachingEnabled
MarkerAfterFetchAlways(c) ==
    [c EXCEPT !.stored = expectedHash, !.hash = expectedHash]

\* run() after a download that returned true: `if (_cachingEnabled)` stores
\* the requested identity in the settings and in _cachedFileHash
MarkerAfterFetch(c) ==
    IF c.enabled
    THEN [c EXCEPT !.stored = expectedHash, !.hash = expectedHash]
    ELSE c

\* run(): downloadImage returned true; the identity marker is updated
RunDownloadOk ==
    /\ pc = "dl_ret_true"
    /\ cache' = MarkerAfterFetch(cache)
    /\ camp' = [camp EXCEPT !.fetched = TRUE, !.markerSet = cache.enabled]
    /\ pc' = "pre_extract"
    /\ UNCHANGED <<info, fs, paths, dl, xz, i, currentProgress, dfu, usb, attempt,
                   status, ev, h>>

\* run(): progress 40 and the staging path, before extractXzFile is called
RunExtractBegin ==
    /\ pc = "pre_extract"
    /\ ev' = EmitProgress(ev, 40)
    /\ paths' = [paths EXCEPT !.tempExtracted = "img", !.extractedImage = "img"]
    /\ pc' = "xz_open"
    /\ UNCHANGED <<info, cache, fs, dl, xz, i, currentProgress, dfu, usb, attempt,
                   status, h, camp>>

\* extractXzFile: the percentage after totalWritten output buffers
ExtractPercentage(totalWritten) ==
    LET share == (totalWritten * 10) \div RefBufs
    IN  40 + (IF share < 10 THEN share ELSE 10)

\* extractXzFile: open input and output, set up the decoder
XzOpen ==
    /\ pc = "xz_open"
    /\ \E outcome \in {"ok", "in_fail", "out_fail", "init_fail"} :
          /\ FileAt(paths.tempCompressed) = "absent" => outcome = "in_fail"
          /\ IF outcome = "ok"
             THEN /\ fs' = WriteAt(fs, "img", "empty")
                  /\ pc' = "xz_loop"
                  /\ UNCHANGED ev
             ELSE /\ ev' = EmitError(ev)
                  /\ pc' = "xz_ret_false"
                  /\ fs' = IF outcome = "init_fail"
                           THEN WriteAt(fs, "img", "empty")
                           ELSE fs
    /\ xz' = NoXz
    /\ UNCHANGED <<info, cache, paths, dl, i, currentProgress, dfu, usb, attempt,
                   status, h, camp>>

\* extractXzFile: one round of the decoding loop that leaves a trace (a read
\* error, a full output buffer, the end of the stream, a decoder error) and,
\* when the loop ends, the code after it; lzma_code reports the end of the
\* stream only for an archive that is all there
XzStep ==
    /\ pc = "xz_loop"
    /\ \E r \in {"read_error", "ok_full", "stream_end", "lzma_error"},
          tail \in 0..1, writeOk \in BOOLEAN :
          LET n == xz.totalWritten + (IF r = "ok_full" THEN 1 ELSE tail)
              truncated == FileAt(paths.tempCompressed) = "partial"
              wrote == r \in {"ok_full", "stream_end"} /\ writeOk
              report == wrote /\ ExtractPercentage(n) > xz.lastProgress
          IN  /\ r \in {"read_error", "lzma_error"} => (tail = 0 /\ writeOk)
              /\ r = "ok_full" => tail = 0
              /\ r = "stream_end" => ~truncated
              /\ n <= MaxOutBufs
              /\ ev' = IF report THEN EmitProgress(ev, ExtractPercentage(n))
                       ELSE IF wrote THEN ev
                       ELSE EmitError(ev)
              /\ IF wrote /\ r = "ok_full"
                 THEN /\ xz' = [totalWritten |-> n,
                                lastProgress |-> IF report THEN ExtractPercentage(n)
                                                 ELSE xz.lastProgress]
                      /\ fs' = WriteAt(fs, "img", "partial")
                      /\ pc' = "xz_loop"
                 ELSE IF wrote
                 THEN /\ xz' = NoXz
                      /\ fs' = WriteAt(fs, "img", "req")
                      /\ pc' = "xz_ret_true"
                 ELSE /\ xz' = NoXz
                      /\ fs' = WriteAt(fs, "img", Removed(fs.img))
                      /\ pc' = "xz_ret_false"
    /\ UNCHANGED <<info, cache, paths, dl, i, currentProgress, dfu, usb, attempt,
                   status, h, camp>>

\* a clean-up that removes the compressed file wherever it is
KeepCompressedNever(path) == FALSE

\* run() after extractXzFile: the compressed file is removed unless
\* `_tempCompressedPath != _cacheFileName` is false
KeepCompressed(path) == path = "cache"

\* run(): extractXzFile returned false
RunExtractFailed ==
    /\ pc = "xz_ret_false"
    /\ ev' = EmitError(ev)
    /\ fs' = IF ~KeepCompressed(paths.tempCompressed)
             THEN WriteAt(fs, paths.tempCompressed, Removed(FileAt(paths.tempCompressed)))
             ELSE fs
    /\ camp' = [camp EXCEPT !.acquisitionFailed = TRUE]
    /\ pc' = AfterAcquisitionFailure
    /\ UNCHANGED <<info, cache, paths, dl, xz, i, currentProgress, dfu, usb,
                   attempt, status, h>>

\* run(): extractXzFile returned true
RunExtractOk ==
    /\ pc = "xz_ret_true"
    /\ fs' = IF ~KeepCompressed(paths.tempCompressed)
             THEN WriteAt(fs, paths.tempCompressed, Removed(FileAt(paths.tempCompressed)))
             ELSE fs
    /\ ev' = EmitProgress(ev, 50)
    /\ pc' = "prep"
    /\ UNCHANGED <<info, cache, paths, dl, xz, i, currentProgress, dfu, usb,
                   attempt, status, h, camp>>

(* ------------------- run(): the bootloader file check ------------------- *)
\* a per-file share twice as large
progressPerFileDoubled == 2 * (BootRange \div NumFiles)

\* a per-file share that is rounded up
progressPerFileRoundedUp == (BootRange \div NumFiles) + 1

\* int progressPerFile = 20 / files.size()
progressPerFile == BootRange \div NumFiles

\* a check that looks at the first plan file only
FirstFileMissing(exists) == ~exists[1]

\* run(): the loop over files that stops at the first one QFile::exists denies
AnyFileMissing(exists) == \E f \in 1..NumFiles : ~exists[f]

\* run(): progress 52, the existence check of every plan file, progress 55
RunVerifyFiles ==
    /\ pc = "prep"
    /\ \E exists \in [1..NumFiles -> BOOLEAN] :
          /\ camp' = [camp EXCEPT !.filesChecked = TRUE, !.exists = exists]
          /\ IF AnyFileMissing(exists)
             THEN /\ ev' = EmitError(EmitProgress(ev, 52))
                  /\ fs' = IF paths.extractedImage # ""
                           THEN WriteAt(fs, paths.extractedImage, Removed(fs.img))
                           ELSE fs
                  /\ pc' = "done"
                  /\ UNCHANGED <<i, currentProgress>>
             ELSE /\ ev' = EmitProgress(EmitProgress(ev, 52), BootBase)
                  /\ currentProgress' = BootBase
                  /\ i' = 1
                  /\ pc' = "stage_begin"
                  /\ UNCHANGED fs
    /\ UNCHANGED <<info, cache, paths, dl, xz, dfu, usb, attempt, status, h>>

(* ------------------------- DfuWrapper: a session ------------------------ *)
\* run() and sendImageToRawemmc pass resetAfter = true
resetAfter == TRUE

\* the alt-setting name run() and sendImageToRawemmc hand to findDevice (the
\* empty name for a call that belongs to no stage)
AltNameOf(stage) ==
    IF stage \in 1..NumFiles THEN altSettingNames[stage]
    ELSE IF stage = ImgStage THEN RawemmcAlt
    ELSE ""

SetPhase(c, stage, p) == [c EXCEPT !.phase[stage] = p]

\* a cleanup that forgets to null what it has closed and left
cleanupKeepsPointers(d) == [d EXCEPT !.initialized = FALSE]

\* DfuWrapper::cleanup on the session record
cleanup(d) ==
    [d EXCEPT !.dev_handle = FALSE, !.dfuDevice = FALSE, !.usbContext = FALSE,
              !.initialized = FALSE]

\* a cleanup that closes nothing
cleanupClosesNothing(d) == 0

\* libusb_close calls cleanup makes: one when a device with an open handle is held
cleanupCloses(d) == IF d.dfuDevice /\ d.dev_handle THEN 1 ELSE 0

\* a cleanup that leaves the USB context alone
cleanupExitsNothing(d) == 0

\* libusb_exit calls cleanup makes: one when the session has a USB context
cleanupExits(d) == IF d.usbContext THEN 1 ELSE 0

\* the session observer after a cleanup() of session d
Cleaned(hh, d) ==
    [hh EXCEPT !.closes = @ + cleanupCloses(d), !.exits = @ + cleanupExits(d)]

\* the campaign observer after a cleanup() of session d
CleanupCall(c, d) ==
    [c EXCEPT !.openHandles = @ - cleanupCloses(d),
              !.liveContexts = @ - cleanupExits(d)]

\* delete dfu: the destructor runs cleanup on session d and the session is gone
DeleteSession(c, d) == [CleanupCall(c, d) EXCEPT !.liveSessions = @ - 1]

\* run(): emit the stage's progress and construct its DfuWrapper
StageBegin ==
    /\ pc = "stage_begin"
    /\ ev' = EmitProgress(ev, currentProgress)
    /\ dfu' = [NoSession EXCEPT !.exists = TRUE, !.resetAfter = resetAfter]
    /\ h' = NoHist
    /\ camp' = [camp EXCEPT !.sessions = @ + 1, !.liveSessions = @ + 1]
    /\ pc' = "init"
    /\ UNCHANGED <<info, cache, fs, paths, dl, xz, i, currentProgress, usb,
                   attempt, status>>

\* DfuWrapper::initialize
Initialize ==
    /\ pc = "init"
    /\ \E ok \in BOOLEAN :
          IF ok
          THEN /\ dfu' = [dfu EXCEPT !.usbContext = TRUE, !.initialized = TRUE]
               /\ pc' = "find_enter"
               /\ UNCHANGED h
          ELSE /\ h' = [h EXCEPT !.result = "init_failed"]
               /\ pc' = "session_failed"
               /\ UNCHANGED dfu
    /\ camp' = [camp EXCEPT !.usbTouched = TRUE,
                            !.liveContexts = IF dfu'.usbContext THEN @ + 1 ELSE @]
    /\ UNCHANGED <<info, cache, fs, paths, dl, xz, i, currentProgress, usb,
                   attempt, status, ev>>

\* criteria whose name survives a call with an empty name
setMatchCriteriaKeepsName(u, vendorId, productId, name) ==
    [u EXCEPT !.match_vendor = vendorId,
              !.match_product = productId,
              !.match_iface_alt_name = IF name # "" THEN name ELSE @]

\* findDevice: match_vendor, match_product and match_iface_alt_name are set
\* from the arguments; an empty name sets the name to nullptr
setMatchCriteria(u, vendorId, productId, name) ==
    [u EXCEPT !.match_vendor = vendorId,
              !.match_product = productId,
              !.match_iface_alt_name = IF name # "" THEN name ELSE "null"]

\* findDevice: the match criteria are stored in the process-wide globals
FindDeviceEnter ==
    /\ pc = "find_enter"
    /\ dfu.initialized
    /\ usb' = setMatchCriteria(usb, TI_VENDOR_ID, TI_PRODUCT_ID, AltNameOf(i))
    /\ attempt' = 0
    /\ pc' = "find_loop"
    /\ UNCHANGED <<info, cache, fs, paths, dl, xz, i, currentProgress, dfu,
                   status, ev, h, camp>>

\* findDevice: the loop condition and the wait before a retry
FindLoopTop ==
    /\ pc = "find_loop"
    /\ IF attempt < maxAttempts
       THEN /\ h' = IF attempt > 0
                    THEN [h EXCEPT !.sleeps = @ + RetryIntervalSec]
                    ELSE h
            /\ pc' = "find_probe"
       ELSE /\ pc' = "find_after"
            /\ UNCHANGED h
    /\ UNCHANGED <<info, cache, fs, paths, dl, xz, i, currentProgress, dfu, usb,
                   attempt, status, ev, camp>>

\* a clearing call that leaves the device list as it is
disconnectDevicesKept(u) == u

\* disconnect_devices(): the device list dfu_root is emptied
disconnect_devices(u) == [u EXCEPT !.dfu_root = FALSE]

\* probe_devices(usbContext): a device found now is put on the list dfu_root;
\* what is on the list already stays there
probe_devices(u, found) == [u EXCEPT !.dfu_root = @ \/ found]

\* findDevice: disconnect_devices(), probe_devices(), break when dfu_root is set
FindProbe ==
    /\ pc = "find_probe"
    /\ \E found \in BOOLEAN, alt \in BOOLEAN, size \in TransferSizes :
          /\ ~found => (~alt /\ size = 0)
          /\ usb' = probe_devices(disconnect_devices(usb), found)
          /\ h' = [h EXCEPT !.probes = @ + 1,
                            !.foundAt = IF found THEN h.probes + 1 ELSE @]
          /\ dfu' = IF found
                    THEN [dfu EXCEPT !.flagsAlt = alt, !.wTransferSize = size]
                    ELSE dfu
    /\ IF usb'.dfu_root
       THEN /\ pc' = "find_after"
            /\ UNCHANGED attempt
       ELSE /\ attempt' = attempt + 1
            /\ pc' = "find_loop"
    /\ camp' = SetPhase([camp EXCEPT !.usbTouched = TRUE,
                                     !.retried = @ \/ ~usb'.dfu_root],
                        i, "discovery")
    /\ UNCHANGED <<info, cache, fs, paths, dl, xz, i, currentProgress, status, ev>>

\* findDevice after the loop: give up, or take dfu_root and open it (the probe
\* and sleep counts observe the loop that just ended and start again at 0); in
\* sendImageToRawemmc a successful findDevice is followed by progress 80
FindAfter ==
    /\ pc = "find_after"
    /\ IF ~usb.dfu_root
       THEN /\ h' = [h EXCEPT !.result = "not_found"]
            /\ pc' = "session_failed"
            /\ UNCHANGED <<dfu, camp>>
       ELSE \E ok \in BOOLEAN :
               /\ dfu' = [dfu EXCEPT !.dfuDevice = TRUE, !.dev_handle = ok]
               /\ h' = [h EXCEPT !.probes = 0, !.sleeps = 0, !.foundAt = 0,
                                 !.result = IF ok THEN @ ELSE "open_failed"]
               /\ pc' = IF ok THEN "df_claim" ELSE "session_failed"
               /\ camp' = IF ok
                          THEN SetPhase([camp EXCEPT !.openHandles = @ + 1], i, "found")
                          ELSE camp
    /\ ev' = IF usb.dfu_root /\ pc' = "df_claim" /\ i = ImgStage
             THEN EmitProgress(ev, 80)
             ELSE ev
    /\ attempt' = 0
    /\ UNCHANGED <<info, cache, fs, paths, dl, xz, i, currentProgress, usb,
                   status>>

\* a release that is issued twice
releaseTwice(hh) == [hh EXCEPT !.releases = @ + 2]

\* a failure path that returns with the interface still claimed
releaseSkipped(hh) == hh

\* downloadFile: libusb_release_interface
libusb_release_interface(hh) == [hh EXCEPT !.releases = @ + 1]

\* an alt-setting selection issued for every device
AfterClaimAlways(d) == "df_setalt"

\* downloadFile: after the claim, `if (dfuDevice->flags & DFU_IFF_ALT)` selects
\* the alternate setting; without the flag the status query is next
AfterClaim(d) == IF d.flagsAlt THEN "df_setalt" ELSE "df_status"

\* downloadFile: libusb_claim_interface
DfClaim ==
    /\ pc = "df_claim"
    /\ dfu.dfuDevice /\ dfu.dev_handle
    /\ \E ok \in BOOLEAN :
          /\ h' = IF ok THEN [h EXCEPT !.claims = @ + 1]
                  ELSE [h EXCEPT !.result = "claim_failed"]
          /\ pc' = IF ~ok THEN "session_failed" ELSE AfterClaim(dfu)
    /\ UNCHANGED <<info, cache, fs, paths, dl, xz, i, currentProgress, dfu, usb,
                   attempt, status, ev, camp>>

\* downloadFile: libusb_set_interface_alt_setting, for a device with DFU_IFF_ALT
DfSetAlt ==
    /\ pc = "df_setalt"
    /\ \E ok \in BOOLEAN :
          /\ h' = IF ok THEN [h EXCEPT !.altSets = @ + 1]
                  ELSE libusb_release_interface(
                           [h EXCEPT !.altSets = @ + 1, !.result = "alt_failed"])
          /\ pc' = IF ok THEN "df_status" ELSE "session_failed"
    /\ UNCHANGED <<info, cache, fs, paths, dl, xz, i, currentProgress, dfu, usb,
                   attempt, status, ev, camp>>

\* a recovery that clears again whenever ERROR is reported
AfterStatusClearsAgain(st, phase) ==
    IF st = "dfuERROR" THEN "df_clear"
    ELSE IF phase \in {"initial", "cleared"}
            /\ st \in {"dfuDNLOAD_IDLE", "dfuUPLOAD_IDLE"} THEN "df_abort"
    ELSE "df_xfer"

\* downloadFile: where the state just reported by a status query sends the
\* session.  The dfuERROR test sees the initial query only, the *_IDLE test
\* sees the initial query and the re-query after a clear, and nothing tests
\* the re-query after an abort.
AfterStatus(st, phase) ==
    IF phase = "initial" /\ st = "dfuERROR" THEN "df_clear"
    ELSE IF phase \in {"initial", "cleared"}
            /\ st \in {"dfuDNLOAD_IDLE", "dfuUPLOAD_IDLE"} THEN "df_abort"
    ELSE "df_xfer"

\* downloadFile: one dfu_get_status, after a clear or an abort when there is one
StatusQuery(phase) ==
    \E ok \in BOOLEAN, st \in DfuStates :
       /\ ~ok => st = "OTHER"
       /\ LET q == [h EXCEPT !.queries = @ + 1,
                              !.clears = IF phase = "cleared" THEN @ + 1 ELSE @,
                              !.aborts = IF phase = "aborted" THEN @ + 1 ELSE @,
                              !.reported = IF ok THEN Append(@, st) ELSE @,
                              !.result = IF ok THEN @ ELSE "status_failed"]
          IN  h' = IF ok THEN q ELSE libusb_release_interface(q)
       /\ status' = IF ok THEN st ELSE status
       /\ pc' = IF ok THEN AfterStatus(st, phase) ELSE "session_failed"

\* downloadFile: the initial dfu_get_status
DfGetStatus ==
    /\ pc = "df_status"
    /\ StatusQuery("initial")
    /\ UNCHANGED <<info, cache, fs, paths, dl, xz, i, currentProgress, dfu, usb,
                   attempt, ev, camp>>

\* downloadFile: dfu_clear_status and the re-query
DfClearStatus ==
    /\ pc = "df_clear"
    /\ StatusQuery("cleared")
    /\ UNCHANGED <<info, cache, fs, paths, dl, xz, i, currentProgress, dfu, usb,
                   attempt, ev, camp>>

\* downloadFile: dfu_abort and the re-query
DfAbort ==
    /\ pc = "df_abort"
    /\ StatusQuery("aborted")
    /\ UNCHANGED <<info, cache, fs, paths, dl, xz, i, currentProgress, dfu, usb,
                   attempt, ev, camp>>

\* a transfer size without the fallback
getTransferSizeNoFallback(d) == IF ~d.dfuDevice THEN 0 ELSE d.wTransferSize

\* DfuWrapper::getTransferSize
getTransferSize(d) ==
    IF ~d.dfuDevice THEN 0
    ELSE IF d.wTransferSize = 0 THEN DefaultXferSize
    ELSE d.wTransferSize

\* a result test that takes every negative code for a failure
TransferAcceptedStrict(ret) == ret >= 0

\* downloadFile: the test of dfuload_do_dnload's result: !(ret < 0 && ret != -1)
TransferAccepted(ret) == ~(ret < 0 /\ ret # LIBUSB_ERROR_IO)

\* a transfer that is followed by detach and reset whatever was asked
AfterTransferAlwaysResets(ra) == "df_detach"

\* downloadFile after an accepted transfer: `if (resetAfter)` guards detach,
\* reset and the closing of the handle; without it `return true` is next
AfterTransfer(ra) == IF ra THEN "df_detach" ELSE "session_ok"

\* downloadFile: load the file, dfuload_do_dnload, release the interface, judge
DfTransfer ==
    /\ pc = "df_xfer"
    /\ \E ret \in XferResults :
          /\ h' = libusb_release_interface(
                      [h EXCEPT !.transfers = @ + 1, !.xferRet = ret,
                                !.xferSize = getTransferSize(dfu),
                                !.xferState = status,
                                !.result = IF TransferAccepted(ret)
                                           THEN IF AfterTransfer(dfu.resetAfter) = "session_ok"
                                                THEN "ok" ELSE @
                                           ELSE "transfer_failed"])
          /\ pc' = IF ~TransferAccepted(ret) THEN "session_failed"
                   ELSE AfterTransfer(dfu.resetAfter)
          /\ camp' = IF TransferAccepted(ret)
                     THEN SetPhase(camp, i,
                                   IF AfterTransfer(dfu.resetAfter) = "session_ok"
                                   THEN "done" ELSE "transferred")
                     ELSE camp
    /\ UNCHANGED <<info, cache, fs, paths, dl, xz, i, currentProgress, dfu, usb,
                   attempt, status, ev>>

\* a detach whose failure ends the session
AfterDetachStrict(ret) == IF ret < 0 THEN "session_failed" ELSE "df_reset"

\* downloadFile: what follows dfu_detach: a negative result is logged as a
\* warning and the reset follows whatever the result
AfterDetach(ret) == "df_reset"

\* a reset whose failure, other than the device having gone, ends the session
AfterResetStrict(ret) ==
    IF ret < 0 /\ ret # LIBUSB_ERROR_NOT_FOUND /\ ret # LIBUSB_ERROR_NO_DEVICE
    THEN "session_failed"
    ELSE "session_ok"

\* downloadFile: what follows libusb_reset_device: a negative result other
\* than NOT_FOUND / NO_DEVICE is logged as a warning; `return true` follows
\* whatever the result
AfterReset(ret) == "session_ok"

\* a handle that stays open after the reset
closeHandleKept(d) == d

\* downloadFile: libusb_close(dev_handle); dev_handle = nullptr
closeHandle(d) == [d EXCEPT !.dev_handle = FALSE]

\* downloadFile: dfu_detach, whose failure is only logged
DfDetach ==
    /\ pc = "df_detach"
    /\ \E ret \in DetachResults :
          /\ h' = [h EXCEPT !.detaches = @ + 1]
          /\ pc' = AfterDetach(ret)
    /\ UNCHANGED <<info, cache, fs, paths, dl, xz, i, currentProgress, dfu, usb,
                   attempt, status, ev, camp>>

\* downloadFile: libusb_reset_device, whose failure is only logged, then the
\* handle is closed and downloadFile returns true
DfReset ==
    /\ pc = "df_reset"
    /\ \E ret \in ResetResults :
          /\ h' = [h EXCEPT !.resets = @ + 1,
                            !.closes = IF dfu.dev_handle THEN @ + 1 ELSE @,
                            !.result = IF AfterReset(ret) = "session_ok"
                                       THEN "ok" ELSE "reset_failed"]
          /\ pc' = AfterReset(ret)
    /\ dfu' = IF dfu.dev_handle THEN closeHandle(dfu) ELSE dfu
    /\ camp' = SetPhase([camp EXCEPT !.openHandles =
                                         IF dfu.dev_handle /\ ~dfu'.dev_handle
                                         THEN @ - 1 ELSE @],
                        i, "done")
    /\ UNCHANGED <<info, cache, fs, paths, dl, xz, i, currentProgress, usb,
                   attempt, status, ev>>

(* ------------------- run(): the stage loop and the end ------------------ *)
\* a failed stage after which the end of the stage loop is reported
StageFailureReportsBootDone == "boot_done"

\* a failed stage that lacks the `return`
StageFailureFallsThrough == "session_ok"

\* run(): where the task goes after a failed stage: the `return` that follows
\* emit error() and delete dfu
AfterStageFailure == "done"

\* a loop that stays on its plan entry
NextStageStays(k) == k

\* a loop that steps over a plan entry
NextStageSkips(k) == k + 2

\* run(): the loop's ++i
NextStage(k) == k + 1

\* run(): initialize, findDevice or downloadFile of a bootloader stage failed
RunStageFailed ==
    /\ pc = "session_failed"
    /\ i <= NumFiles
    /\ ev' = EmitError(ev)
    /\ h' = Cleaned(h, dfu)
    /\ dfu' = NoSession
    /\ usb' = disconnect_devices(usb)
    /\ fs' = IF paths.extractedImage # ""
             THEN WriteAt(fs, paths.extractedImage, Removed(fs.img))
             ELSE fs
    /\ camp' = SetPhase(DeleteSession(camp, dfu), i, "failed")
    /\ status' = "none"
    /\ pc' = AfterStageFailure
    /\ UNCHANGED <<info, cache, paths, dl, xz, i, currentProgress, attempt>>

\* a settle wait after the last file as well
settleWaitAlways(k) == SettleSec

\* run(): `if (i < files.size() - 1)` QThread::sleep(5) after the k-th file
settleWait(k) == IF k < NumFiles THEN SettleSec ELSE 0

\* run(): a bootloader stage succeeded: dfu->cleanup(), delete dfu (whose
\* destructor runs cleanup again), progress, settle wait
StageDone ==
    /\ pc = "session_ok"
    /\ i <= NumFiles
    /\ h' = Cleaned(Cleaned(h, dfu), cleanup(dfu))
    /\ dfu' = NoSession
    /\ usb' = disconnect_devices(usb)
    /\ currentProgress' = currentProgress + progressPerFile
    /\ ev' = IF i < NumFiles
             THEN EmitProgress(EmitProgress(ev, currentProgress'), currentProgress')
             ELSE EmitProgress(ev, currentProgress')
    /\ camp' = [DeleteSession(CleanupCall(camp, dfu), cleanup(dfu)) EXCEPT
                    !.waited = settleWait(i)]
    /\ status' = "none"
    /\ i' = NextStage(i)
    /\ pc' = IF i' <= NumFiles THEN "stage_begin" ELSE "boot_done"
    /\ UNCHANGED <<info, cache, fs, paths, dl, xz, attempt>>

\* run() after the loop: progress 75
RunBootDone ==
    /\ pc = "boot_done"
    /\ ev' = EmitProgress(ev, BootCeiling)
    /\ pc' = "after_boot"
    /\ UNCHANGED <<info, cache, fs, paths, dl, xz, i, currentProgress, dfu, usb,
                   attempt, status, h, camp>>

\* run() after progress 75: the image stage's wait and progress when a staging
\* image exists, or progress 100 and success()
RunAfterBoot ==
    /\ pc = "after_boot"
    /\ IF paths.extractedImage # ""
       THEN /\ ev' = EmitProgress(EmitProgress(ev, 78), 80)
            /\ camp' = [camp EXCEPT !.waited = ImageWaitSec]
            /\ pc' = "img_begin"
       ELSE /\ ev' = EmitSuccess(EmitProgress(ev, 100))
            /\ pc' = "done"
            /\ UNCHANGED camp
    /\ UNCHANGED <<info, cache, fs, paths, dl, xz, i, currentProgress, dfu, usb,
                   attempt, status, h>>

\* sendImageToRawemmc: construct the image stage's DfuWrapper
SendImageBegin ==
    /\ pc = "img_begin"
    /\ dfu' = [NoSession EXCEPT !.exists = TRUE, !.resetAfter = resetAfter]
    /\ h' = NoHist
    /\ camp' = [camp EXCEPT !.sessions = @ + 1, !.liveSessions = @ + 1]
    /\ i' = ImgStage
    /\ pc' = "init"
    /\ UNCHANGED <<info, cache, fs, paths, dl, xz, currentProgress, usb, attempt,
                   status, ev>>

\* sendImageToRawemmc: initialize, findDevice or downloadFile failed
SendImageFailed ==
    /\ pc = "session_failed"
    /\ i = ImgStage
    /\ ev' = EmitError(ev)
    /\ h' = Cleaned(h, dfu)
    /\ dfu' = NoSession
    /\ usb' = disconnect_devices(usb)
    /\ status' = "none"
    /\ camp' = SetPhase(DeleteSession(camp, dfu), ImgStage, "failed")
    /\ pc' = "img_ret_false"
    /\ UNCHANGED <<info, cache, fs, paths, dl, xz, i, currentProgress, attempt>>

\* run(): sendImageToRawemmc returned false
RunImageFailed ==
    /\ pc = "img_ret_false"
    /\ ev' = EmitError(ev)
    /\ fs' = WriteAt(fs, paths.extractedImage, Removed(fs.img))
    /\ pc' = AfterStageFailure
    /\ UNCHANGED <<info, cache, paths, dl, xz, i, currentProgress, dfu, usb,
                   attempt, status, h, camp>>

\* sendImageToRawemmc: the transfer succeeded: dfu->cleanup(), delete dfu
\* (whose destructor runs cleanup again), return true
SendImageOk ==
    /\ pc = "session_ok"
    /\ i = ImgStage
    /\ h' = Cleaned(Cleaned(h, dfu), cleanup(dfu))
    /\ dfu' = NoSession
    /\ usb' = disconnect_devices(usb)
    /\ status' = "none"
    /\ camp' = DeleteSession(CleanupCall(camp, dfu), cleanup(dfu))
    /\ pc' = "img_ret_true"
    /\ UNCHANGED <<info, cache, fs, paths, dl, xz, i, currentProgress, attempt,
                   ev>>

\* run(): sendImageToRawemmc returned true: remove the staging image,
\* progress 100, success()
RunImageOk ==
    /\ pc = "img_ret_true"
    /\ fs' = WriteAt(fs, paths.extractedImage, Removed(fs.img))
    /\ ev' = EmitSuccess(EmitProgress(ev, 100))
    /\ pc' = "done"
    /\ UNCHANGED <<info, cache, paths, dl, xz, i, currentProgress, dfu, usb,
                   attempt, status, h, camp>>

Next ==
    \/ CacheFileLost
    \/ RunAcquireBegin
    \/ RunDownloadTarget
    \/ DlOpen
    \/ DlChunk
    \/ DlFinish
    \/ RunDownloadFailed
    \/ RunDownloadOk
    \/ RunExtractBegin
    \/ XzOpen
    \/ XzStep
    \/ RunExtractFailed
    \/ RunExtractOk
    \/ RunVerifyFiles
    \/ StageBegin
    \/ Initialize
    \/ FindDeviceEnter
    \/ FindLoopTop
    \/ FindProbe
    \/ FindAfter
    \/ DfClaim
    \/ DfSetAlt
    \/ DfGetStatus
    \/ DfClearStatus
    \/ DfAbort
    \/ DfTransfer
    \/ DfDetach
    \/ DfReset
    \/ RunStageFailed
    \/ StageDone
    \/ RunBootDone
    \/ RunAfterBoot
    \/ SendImageBegin
    \/ SendImageFailed
    \/ RunImageFailed
    \/ SendImageOk
    \/ RunImageOk

Spec == Init /\ [][Next]_vars

\* every call the task makes returns and run() is not suspended for good: a
\* step that can be taken is taken
FairSpec == Spec /\ WF_vars(Next)

(* --------------- the script-based revision of run() -------------------- *)
\* The older revision of DfuThread::run (src/src/dfuthread.cpp:24-239) writes a
\* bash script, runs it under pkexec and follows its output.  It is a campaign
\* of its own over the same variables: pc is the position of run(), fs holds
\* the script file and the log file the script's tee writes, status is the
\* child process, i the plan file the script is at, attempt the script's
\* reconnect poll, currentProgress the output handler's counter, ev the events.
\* The output handler is recorded where the child prints the line.

\* the script's `for i in {1..20}` reconnect loop
ScriptPolls == 20

\* the handler's percentage for the line "Sending <file k>"
SendingPercentage(k) == 10 + (20 * k)

\* the child has ended: exit code 0, 1 (the script's `exit 1`) or 126 (pkexec
\* was refused)
ChildExited == {"exited_0", "exited_1", "exited_126"}

ScriptUnused == <<info, cache, paths, dl, xz, dfu, usb, h, camp>>

ScriptInit ==
    /\ pc = "s_run"
    /\ fs = [script |-> "absent", log |-> "absent"]
    /\ status = "none"
    /\ i = 0
    /\ attempt = 0
    /\ currentProgress = 0
    /\ ev = NoEvents
    /\ info = [board |-> FALSE, imageType |-> FALSE, distro |-> FALSE]
    /\ cache = initializeCache(FALSE, "", "absent")
    /\ paths = [tempCompressed |-> "", tempExtracted |-> "", extractedImage |-> ""]
    /\ dl = NoDl
    /\ xz = NoXz
    /\ dfu = NoSession
    /\ usb = [dfu_root |-> FALSE, match_vendor |-> -1, match_product |-> -1,
              match_iface_alt_name |-> "null"]
    /\ h = NoHist
    /\ camp = [scriptCreated |-> FALSE, started |-> FALSE]

\* run(): checkDfuUtil, and installDfuUtil with a second check when it fails
ScriptCheckTool ==
    /\ pc = "s_run"
    /\ \E found \in BOOLEAN, installed \in BOOLEAN, foundAfter \in BOOLEAN :
          IF found \/ (installed /\ foundAfter)
          THEN /\ ev' = EmitProgress(ev, 10)
               /\ pc' = "s_verify"
          ELSE /\ ev' = EmitError(ev)
               /\ pc' = "s_done"
    /\ UNCHANGED <<fs, status, i, attempt, currentProgress>>
    /\ UNCHANGED ScriptUnused

\* run(): every plan file must exist
ScriptVerifyFiles ==
    /\ pc = "s_verify"
    /\ \E exists \in [1..NumFiles -> BOOLEAN] :
          IF AnyFileMissing(exists)
          THEN /\ ev' = EmitError(ev)
               /\ pc' = "s_done"
          ELSE /\ ev' = EmitProgress(ev, 15)
               /\ pc' = "s_create"
    /\ UNCHANGED <<fs, status, i, attempt, currentProgress>>
    /\ UNCHANGED ScriptUnused

\* run(): open the script file, write it, close it, make it executable
ScriptCreate ==
    /\ pc = "s_create"
    /\ \E ok \in BOOLEAN :
          IF ok
          THEN /\ fs' = [fs EXCEPT !.script = "present"]
               /\ camp' = [camp EXCEPT !.scriptCreated = TRUE]
               /\ ev' = EmitProgress(ev, 20)
               /\ currentProgress' = 20
               /\ pc' = "s_start"
          ELSE /\ ev' = EmitError(ev)
               /\ pc' = "s_done"
               /\ UNCHANGED <<fs, camp, currentProgress>>
    /\ UNCHANGED <<status, i, attempt, info, cache, paths, dl, xz, dfu, usb, h>>

\* run(): process.start and waitForStarted(5000)
ScriptStart ==
    /\ pc = "s_start"
    /\ \E ok \in BOOLEAN :
          IF ok
          THEN /\ status' = "authorising"
               /\ camp' = [camp EXCEPT !.started = TRUE]
               /\ pc' = "s_wait"
               /\ UNCHANGED <<fs, ev>>
          ELSE /\ ev' = EmitError(ev)
               /\ fs' = [fs EXCEPT !.script = Removed(@)]
               /\ pc' = "s_done"
               /\ UNCHANGED <<status, camp>>
    /\ UNCHANGED <<i, attempt, currentProgress, info, cache, paths, dl, xz, dfu,
                   usb, h>>

\* the child: pkexec asks for authorisation; the script then looks for a DFU
\* device and exits 1 when there is none
ChildDeviceCheck ==
    /\ pc = "s_wait" /\ status = "authorising"
    /\ \E r \in {"denied", "no_device", "found"} :
          IF r = "found"
          THEN status' = "send" /\ i' = 1
          ELSE /\ status' = IF r = "denied" THEN "exited_126" ELSE "exited_1"
               /\ UNCHANGED i
    /\ UNCHANGED <<pc, fs, attempt, currentProgress, ev>>
    /\ UNCHANGED ScriptUnused

\* the child: "Sending <file>", then dfu-util piped through tee into
\* /tmp/dfu-output.log, then the test of its result; after the last file "All
\* files sent successfully" and exit 0
ChildSend ==
    /\ pc = "s_wait" /\ status = "send"
    /\ currentProgress' = SendingPercentage(i)
    /\ ev' = EmitProgress(ev, SendingPercentage(i))
    /\ fs' = [fs EXCEPT !.log = "present"]
    /\ \E r \in {"done", "failed"} :
          status' = IF r = "failed" THEN "exited_1"
                    ELSE IF i < NumFiles THEN "wait"
                    ELSE "exited_0"
    /\ UNCHANGED <<pc, i, attempt>>
    /\ UNCHANGED ScriptUnused

\* the child: "Waiting for device to reconnect..." and sleep 2
ChildWait ==
    /\ pc = "s_wait" /\ status = "wait"
    /\ ev' = EmitProgress(ev, currentProgress + 5)
    /\ attempt' = 1
    /\ status' = "poll"
    /\ UNCHANGED <<pc, fs, i, currentProgress>>
    /\ UNCHANGED ScriptUnused

\* the child: one round of the reconnect loop: "Device reconnected" and on to
\* the next file, or exit 1 in round 20, or sleep 0.5 and the next round
ChildPoll ==
    /\ pc = "s_wait" /\ status = "poll"
    /\ \E found \in BOOLEAN :
          IF found
          THEN /\ currentProgress' = currentProgress + 10
               /\ ev' = EmitProgress(ev, currentProgress + 10)
               /\ i' = i + 1
               /\ attempt' = 0
               /\ status' = "send"
          ELSE /\ IF attempt = ScriptPolls
                  THEN status' = "exited_1" /\ UNCHANGED attempt
                  ELSE attempt' = attempt + 1 /\ UNCHANGED status
               /\ UNCHANGED <<currentProgress, ev, i>>
    /\ UNCHANGED <<pc, fs>>
    /\ UNCHANGED ScriptUnused

\* run(): waitForFinished(120000) gave up: error, kill, remove the script
ScriptTimedOut ==
    /\ pc = "s_wait" /\ status \notin ChildExited
    /\ ev' = EmitError(ev)
    /\ status' = "killed"
    /\ fs' = [fs EXCEPT !.script = Removed(@)]
    /\ pc' = "s_done"
    /\ UNCHANGED <<i, attempt, currentProgress>>
    /\ UNCHANGED ScriptUnused

\* run(): the child exited: remove the script, then progress 100 and success()
\* for exit code 0 and error() otherwise
ScriptExited ==
    /\ pc = "s_wait" /\ status \in ChildExited
    /\ fs' = [fs EXCEPT !.script = Removed(@)]
    /\ ev' = IF status = "exited_0"
             THEN EmitSuccess(EmitProgress(ev, 100))
             ELSE EmitError(ev)
    /\ pc' = "s_done"
    /\ UNCHANGED <<status, i, attempt, currentProgress>>
    /\ UNCHANGED ScriptUnused

ScriptNext ==
    \/ ScriptCheckTool
    \/ ScriptVerifyFiles
    \/ ScriptCreate
    \/ ScriptStart
    \/ ChildDeviceCheck
    \/ ChildSend
    \/ ChildWait
    \/ ChildPoll
    \/ ScriptTimedOut
    \/ ScriptExited

ScriptSpec == ScriptInit /\ [][ScriptNext]_vars

(* ------------- DfuWrapper driven by a caller of its own choice ---------- *)
\* the wrapper's methods are public and downloadFile takes resetAfter (default
\* true) from its caller: a caller other than run() constructs a wrapper,
\* calls initialize, findDevice (with the name of a stage, or with the empty
\* name: i = 0) and downloadFile with either value, may call cleanup() after
\* any of them has returned, and deletes the wrapper; the process-wide match
\* criteria are what an earlier wrapper left, or still untouched
WrapperInit ==
    /\ pc = "init"
    /\ info = [board |-> FALSE, imageType |-> FALSE, distro |-> FALSE]
    /\ cache = [enabled |-> FALSE, hash |-> "", stored |-> "", fileOpen |-> FALSE]
    /\ fs = [cacheFile |-> "absent", tmpFile |-> "absent", img |-> "absent"]
    /\ paths = [tempCompressed |-> "", tempExtracted |-> "", extractedImage |-> ""]
    /\ dl = NoDl
    /\ xz = NoXz
    /\ i \in {0} \cup Stages
    /\ currentProgress = BootBase
    /\ \E ra \in BOOLEAN :
          dfu = [NoSession EXCEPT !.exists = TRUE, !.resetAfter = ra]
    /\ \E left \in {"null", "bootloader", "rawemmc"} :
          usb = [dfu_root |-> FALSE,
                 match_vendor |-> IF left = "null" THEN -1 ELSE TI_VENDOR_ID,
                 match_product |-> IF left = "null" THEN -1 ELSE TI_PRODUCT_ID,
                 match_iface_alt_name |-> left]
    /\ attempt = 0
    /\ status = "none"
    /\ ev = NoEvents
    /\ h = NoHist
    /\ camp = [sessions |-> 1, usbTouched |-> FALSE,
               filesChecked |-> TRUE, exists |-> [f \in 1..NumFiles |-> TRUE],
               acquisitionFailed |-> FALSE, fetched |-> FALSE, dlReported |-> FALSE,
               phase |-> [s \in {0} \cup Stages |-> "none"], waited |-> 0,
               lookup |-> "none", dlCalled |-> FALSE, retried |-> FALSE,
               liveSessions |-> 1, openHandles |-> 0, liveContexts |-> 0,
               fetchError |-> FALSE, slotWriteFailed |-> FALSE,
               markerSet |-> FALSE]

\* DfuWrapper::cleanup called by the owner after a method has returned
WrapperCleanup ==
    /\ pc \in {"session_ok", "session_failed"}
    /\ h' = Cleaned(h, dfu)
    /\ camp' = CleanupCall(camp, dfu)
    /\ dfu' = cleanup(dfu)
    /\ usb' = disconnect_devices(usb)
    /\ pc' = "cleaned"
    /\ UNCHANGED <<info, cache, fs, paths, dl, xz, i, currentProgress, attempt,
                   status, ev>>

\* ~DfuWrapper: the destructor runs cleanup, after a cleanup() or without one
WrapperDelete ==
    /\ pc \in {"session_ok", "session_failed", "cleaned"}
    /\ h' = Cleaned(h, dfu)
    /\ camp' = DeleteSession(camp, dfu)
    /\ dfu' = [cleanup(dfu) EXCEPT !.exists = FALSE]
    /\ usb' = disconnect_devices(usb)
    /\ pc' = "deleted"
    /\ UNCHANGED <<info, cache, fs, paths, dl, xz, i, currentProgress, attempt,
                   status, ev>>

WrapperNext ==
    \/ Initialize
    \/ FindDeviceEnter
    \/ FindLoopTop
    \/ FindProbe
    \/ FindAfter
    \/ DfClaim
    \/ DfSetAlt
    \/ DfGetStatus
    \/ DfClearStatus
    \/ DfAbort
    \/ DfTransfer
    \/ DfDetach
    \/ DfReset
    \/ WrapperCleanup
    \/ WrapperDelete

WrapperSpec == WrapperInit /\ [][WrapperNext]_vars

(* ------------- downloadImage: who runs the progress handler ------------- *)
\* run() executes in the thread QThread::start() creates (the worker); the
\* DfuThread object itself belongs to the thread that constructed it, which
\* cannot be that worker.  downloadImage connects reply's downloadProgress to a
\* lambda with `this` as the context object (src/src/dfuthread.cpp:824-825),
\* so each time the reply raises the signal in the worker the invocation is
\* posted to the event queue of the object's thread and the lambda body runs
\* there; readyRead has no context object and runs in the worker.  The signals
\* run() emits reach the control path through that same queue.  Here pc is the
\* position of the worker from the call of downloadImage to the call of
\* extractXzFile, dl the locals of downloadImage together with the two the
\* lambda captures by reference, status the event queue of the object's
\* thread, ev what the control path has received, camp the observer.

\* an entry of the event queue: the posted invocation of the lambda ("call"),
\* or a signal of the worker on its way to the control path
PostedCall(received, total) ==
    [kind |-> "call", received |-> received, total |-> total, p |-> 0]
PostedProgress(p) == [kind |-> "progress", received |-> 0, total |-> 0, p |-> p]
PostedError == [kind |-> "error", received |-> 0, total |-> 0, p |-> 0]

\* downloadImage's frame: totalBytes and downloadedBytes exist while it is live
NoFrame ==
    [received |-> 0, len |-> 0, total |-> 0, short |-> FALSE,
     live |-> FALSE, downloadedBytes |-> 0, totalBytes |-> 0]

DeliveryUnused == <<info, xz, i, currentProgress, dfu, usb, attempt, h>>

\* the worker is about to call downloadImage after a miss: progress 5 is on
\* its way, the target is chosen
DeliveryInit ==
    /\ pc = "dl_open"
    /\ \E p \in PersistedStates, removed \in BOOLEAN :
          /\ cache = initializeCache(p.enabled, p.stored, p.file)
          /\ fs = [cacheFile |-> IF removed /\ downloadTarget(cache) = "cache"
                                 THEN Removed(p.file) ELSE p.file,
                   tmpFile |-> "absent", img |-> "absent"]
          /\ ~(/\ cache.enabled
               /\ cache.hash = expectedHash
               /\ FileValid(p.file))
    /\ paths = [tempCompressed |-> downloadTarget(cache), tempExtracted |-> "",
                extractedImage |-> ""]
    /\ dl = NoFrame
    /\ status = <<PostedProgress(5)>>
    /\ ev = NoEvents
    /\ camp = [producedByWorker |-> 1, producedElsewhere |-> 0,
               producedAfterReturn |-> FALSE, strayWrite |-> FALSE,
               clobbered |-> FALSE, logged |-> -1]
    /\ info = [board |-> TRUE, imageType |-> TRUE, distro |-> TRUE]
    /\ xz = NoXz
    /\ i = 1
    /\ currentProgress = 0
    /\ dfu = NoSession
    /\ usb = [dfu_root |-> FALSE, match_vendor |-> -1, match_product |-> -1,
              match_iface_alt_name |-> "null"]
    /\ attempt = 0
    /\ h = NoHist

\* downloadImage: the request is started, the output file opened, the locals
\* created and the handlers connected
WorkerOpen ==
    /\ pc = "dl_open"
    /\ \E ok \in BOOLEAN, n \in 1..MaxChunks, known \in BOOLEAN :
          IF ok
          THEN /\ fs' = WriteAt(fs, paths.tempCompressed, "empty")
               /\ dl' = [NoFrame EXCEPT !.len = n,
                                        !.total = IF known THEN n ELSE 0,
                                        !.live = TRUE]
               /\ pc' = "dl_loop"
          ELSE /\ pc' = "dl_ret_false"
               /\ UNCHANGED <<fs, dl>>
    /\ UNCHANGED <<cache, paths, status, ev, camp>>
    /\ UNCHANGED DeliveryUnused

\* inside loop.exec(): a chunk arrives; the readyRead lambda runs in the
\* worker and writes it, the downloadProgress lambda is posted to the thread
\* of its context object
WorkerChunk ==
    /\ pc = "dl_loop"
    /\ dl.received < dl.len
    /\ \E outOk \in BOOLEAN, writeOk \in BOOLEAN :
          /\ cache' = writeCache(cache, writeOk)
          /\ fs' = IF cache.enabled /\ cache.fileOpen /\ ~writeOk
                   THEN [fs EXCEPT !.cacheFile = Removed(@)]
                   ELSE WriteAt(fs, paths.tempCompressed, "partial")
          /\ dl' = [dl EXCEPT !.received = @ + 1, !.short = @ \/ ~outOk]
    /\ status' = Append(status, PostedCall(dl.received + 1, dl.total))
    /\ UNCHANGED <<pc, paths, ev, camp>>
    /\ UNCHANGED DeliveryUnused

\* after loop.exec(): the error check, the last write, the qDebug that reads
\* downloadedBytes, and the return, which ends the frame
WorkerFinish ==
    /\ pc = "dl_loop"
    /\ \E failed \in BOOLEAN :
          IF failed
          THEN /\ status' = Append(status, PostedError)
               /\ camp' = [camp EXCEPT !.producedByWorker = @ + 1]
               /\ pc' = "dl_ret_false"
               /\ UNCHANGED fs
          ELSE /\ dl.received = dl.len
               /\ fs' = WriteAt(fs, paths.tempCompressed,
                                IF dl.short THEN "partial" ELSE "req")
               /\ camp' = [camp EXCEPT !.logged = dl.downloadedBytes]
               /\ pc' = "dl_ret_true"
               /\ UNCHANGED status
    /\ dl' = NoFrame
    /\ UNCHANGED <<cache, paths, ev>>
    /\ UNCHANGED DeliveryUnused

\* run(): downloadImage returned false
WorkerDownloadFailed ==
    /\ pc = "dl_ret_false"
    /\ status' = Append(status, PostedError)
    /\ camp' = [camp EXCEPT !.producedByWorker = @ + 1]
    /\ fs' = IF cache.enabled /\ cache.fileOpen
             THEN [fs EXCEPT !.cacheFile = Removed(@)]
             ELSE fs
    /\ pc' = AfterAcquisitionFailure
    /\ UNCHANGED <<cache, paths, dl, ev>>
    /\ UNCHANGED DeliveryUnused

\* run(): downloadImage returned true
WorkerDownloadOk ==
    /\ pc = "dl_ret_true"
    /\ cache' = MarkerAfterFetch(cache)
    /\ pc' = "pre_extract"
    /\ UNCHANGED <<fs, paths, dl, status, ev, camp>>
    /\ UNCHANGED DeliveryUnused

\* run(): progress 40 before extractXzFile is called
WorkerExtractBegin ==
    /\ pc = "pre_extract"
    /\ status' = Append(status, PostedProgress(40))
    /\ camp' = [camp EXCEPT !.producedByWorker = @ + 1]
    /\ paths' = [paths EXCEPT !.tempExtracted = "img", !.extractedImage = "img"]
    /\ pc' = "xz_open"
    /\ UNCHANGED <<cache, fs, dl, ev>>
    /\ UNCHANGED DeliveryUnused

\* the thread of the DfuThread object takes the next entry of its queue.  A
\* signal of the worker is handed to the control path.  A posted invocation
\* runs the lambda body there: it stores into downloadedBytes and totalBytes
\* through the captured references and, when total > 0, emits progressUpdate
\* itself.  When downloadImage has returned the references dangle: the store
\* goes to the worker's stack, where it changes nothing that is read again or
\* a local of whatever the worker runs by then.
MainDispatch ==
    /\ status # <<>>
    /\ LET e == Head(status)
       IN  /\ status' = Tail(status)
           /\ CASE e.kind = "progress" ->
                     /\ ev' = EmitProgress(ev, e.p)
                     /\ UNCHANGED <<dl, camp>>
                [] e.kind = "error" ->
                     /\ ev' = EmitError(ev)
                     /\ UNCHANGED <<dl, camp>>
                [] e.kind = "call" ->
                     /\ ev' = IF e.total > 0
                              THEN EmitProgress(ev, DownloadPercentage(e.received, e.total))
                              ELSE ev
                     /\ dl' = IF dl.live
                              THEN [dl EXCEPT !.downloadedBytes = e.received,
                                              !.totalBytes = IF e.total > 0
                                                             THEN e.total ELSE @]
                              ELSE dl
                     /\ \E hit \in BOOLEAN :
                           camp' = [camp EXCEPT
                                      !.producedElsewhere =
                                          IF e.total > 0 THEN @ + 1 ELSE @,
                                      !.producedAfterReturn =
                                          @ \/ (e.total > 0 /\ ~dl.live),
                                      !.strayWrite = @ \/ ~dl.live,
                                      !.clobbered = @ \/ (~dl.live /\ hit)]
    /\ UNCHANGED <<pc, cache, fs, paths>>
    /\ UNCHANGED DeliveryUnused

DeliveryNext ==
    \/ WorkerOpen
    \/ WorkerChunk
    \/ WorkerFinish
    \/ WorkerDownloadFailed
    \/ WorkerDownloadOk
    \/ WorkerExtractBegin
    \/ MainDispatch

DeliverySpec == DeliveryInit /\ [][DeliveryNext]_vars

(* ------------------------------- claims -------------------------------- *)
Terminals == ev.success + ev.error
Finished == pc = "done"
DuringDownloadFile == pc \in {"df_claim", "df_setalt", "df_status", "df_clear",
                              "df_abort", "df_xfer", "df_detach", "df_reset"}
InProgress == {"discovery", "found", "transferred"}

\* C1: every campaign emits exactly one terminal event in total, one success()
\* or one error(msg), also when the failure arises inside downloadImage,
\* extractXzFile or sendImageToRawemmc.
C1_ExactlyOneTerminalEvent ==
    /\ Terminals <= 1
    /\ Finished => Terminals = 1

\* C2: the percentages of the progressUpdate events of a campaign never
\* decrease, from the acquisition phase through the bootloader stages to the
\* image stage.
C2_ProgressNonDecreasing == ev.mono

\* a finished campaign that fetched with download-progress callbacks, extracted,
\* ran all stages and the image stage
C2_Witness ==
    /\ Finished /\ ev.success = 1 /\ ev.last = 100
    /\ camp.dlReported /\ camp.fetched
    /\ camp.phase[ImgStage] = "done"

\* C3: success() is emitted only after every bootloader stage and, when a
\* staging image exists, the image stage completed; once a stage has failed the
\* campaign has emitted error, has returned, and no later stage has discovered,
\* claimed or transferred.
C3_SuccessOnlyAfterAllStages ==
    /\ ev.success > 0 =>
          /\ \A s \in 1..NumFiles : camp.phase[s] = "done"
          /\ paths.extractedImage # "" => camp.phase[ImgStage] = "done"
    /\ \A s \in Stages : camp.phase[s] = "failed" =>
          /\ ev.error > 0 /\ ev.success = 0
          /\ Finished \/ (s = ImgStage /\ pc = "img_ret_false")
          /\ ~dfu.exists
          /\ camp.sessions = s
          /\ \A t \in Stages : t > s => camp.phase[t] = "none"

\* discovery for the third stage ran out of attempts after stages one and two
\* had reported their success progress
C3_Witness ==
    /\ camp.phase[1] = "done" /\ camp.phase[2] = "done" /\ camp.phase[3] = "failed"
    /\ h.result = "not_found" /\ h.probes = 15
    /\ ev.last = 67 /\ ev.error = 1 /\ ev.success = 0
    /\ Finished

\* C4: when a file of the transfer plan is missing the campaign fails with an
\* error before any device interaction: no session is constructed and no USB
\* call is made for any stage.
C4_MissingFileNoDevice ==
    (camp.filesChecked /\ \E f \in 1..NumFiles : ~camp.exists[f]) =>
        /\ Finished /\ ev.error = 1 /\ ev.success = 0
        /\ camp.sessions = 0 /\ ~camp.usbTouched /\ ~dfu.exists
        /\ \A s \in Stages : camp.phase[s] = "none"

\* the second file is missing, the first and third exist
C4_Witness ==
    /\ camp.filesChecked
    /\ camp.exists[1] /\ ~camp.exists[2] /\ camp.exists[3]
    /\ Finished /\ ev.error = 1

\* C5: when image identifiers are supplied and the acquisition fails (fetch or
\* decompression), the campaign ends with an error before any device
\* interaction.
C5_AcquisitionFailureNoDevice ==
    /\ pc \in {"dl_ret_false", "xz_ret_false"} =>
          (camp.sessions = 0 /\ ~camp.usbTouched)
    /\ camp.acquisitionFailed =>
          /\ HasImageInfo
          /\ Finished /\ ev.error >= 1 /\ ev.success = 0
          /\ camp.sessions = 0 /\ ~camp.usbTouched /\ ~dfu.exists
          /\ \A s \in Stages : camp.phase[s] = "none"

\* a fetched archive whose decompression failed
C5_Witness ==
    /\ camp.acquisitionFailed /\ camp.fetched
    /\ Finished /\ ev.error >= 1

\* C6: the stages run in plan order and one at a time: a stage starts its
\* discovery only after the stage before it has transferred, detached and
\* reset, the k-th session serves the k-th plan entry, and the alt-setting
\* names follow bootloader, tispl.bin, u-boot.img, rawemmc.
C6_StagesInPlanOrder ==
    /\ \A s \in Stages : (s > 1 /\ camp.phase[s] # "none") => camp.phase[s - 1] = "done"
    /\ \A s \in Stages : camp.phase[s] \in InProgress => (s = i /\ dfu.exists)
    /\ dfu.exists => camp.sessions = i
    /\ pc \in {"find_loop", "find_probe"} =>
          usb.match_iface_alt_name =
              <<"bootloader", "tispl.bin", "u-boot.img", "rawemmc">>[i]

\* all three bootloader stages and the image stage done
C6_Witness ==
    /\ \A s \in Stages : camp.phase[s] = "done"
    /\ camp.sessions = 4
    /\ ev.success = 1

\* C7: findDevice probes 15 times, with one 1 s wait before each probe after
\* the first, before it gives up; when a device appears on probe k it stops
\* with k probes and k - 1 waits and neither probes nor waits again.
C7_DiscoveryRetries ==
    /\ h.result = "not_found" => (h.probes = 15 /\ h.sleeps = 14)
    /\ pc = "find_probe" => (h.sleeps = h.probes /\ h.probes < 15)
    /\ pc = "find_loop" => (h.probes = attempt /\ h.foundAt = 0
                            /\ h.sleeps = IF attempt = 0 THEN 0 ELSE attempt - 1)
    /\ (pc = "find_after" /\ usb.dfu_root) =>
          /\ h.foundAt = h.probes
          /\ h.probes \in 1..15
          /\ h.sleeps = h.probes - 1
    /\ (pc = "find_after" /\ ~usb.dfu_root) => (h.probes = 15 /\ h.sleeps = 14)
    /\ (DuringDownloadFile \/ pc = "session_ok") => (h.probes = 0 /\ h.sleeps = 0)

\* discovery gave up after the last attempt
C7_Witness ==
    /\ h.result = "not_found" /\ h.probes = 15 /\ h.sleeps = 14
    /\ pc = "session_failed"

\* C8: whenever a status query of a session reports ERROR, exactly one
\* clearStatus is issued before the transfer, and whenever one reports
\* DNLOAD_IDLE or UPLOAD_IDLE, exactly one abortTransfer; for the initial query
\* and for the re-queries.
C8_OneRecoveryPerReportedState ==
    h.transfers > 0 =>
        /\ (\E k \in 1..Len(h.reported) : h.reported[k] = "dfuERROR") => h.clears = 1
        /\ (\E k \in 1..Len(h.reported) :
               h.reported[k] \in {"dfuDNLOAD_IDLE", "dfuUPLOAD_IDLE"}) => h.aborts = 1

\* C9: a transfer result r >= 0 or r = -1 is a success; every other negative r
\* makes downloadFile fail without detach or reset.  A benign -1 on the first
\* stage lets the campaign go on to the settle wait and the second stage.
C9_TransferResult ==
    /\ h.transfers = 1 =>
          IF h.xferRet >= 0 \/ h.xferRet = -1
          THEN h.result \in {"none", "ok"} /\ pc # "session_failed"
          ELSE h.result = "transfer_failed" /\ h.detaches = 0 /\ h.resets = 0
    /\ (h.transfers = 1 /\ h.xferRet = -1 /\ i = 1) =>
          pc \in {"df_detach", "df_reset", "session_ok"}
    /\ (h.transfers = 1 /\ h.xferRet = -1 /\ i = 2 /\ pc = "stage_begin") =>
          /\ camp.phase[1] = "done"
          /\ camp.waited = 5
          /\ ev.error = 0 /\ ev.last = 61

\* the first stage's transfer returned -1 and the campaign stands before the
\* second stage, after the settle wait
C9_Witness ==
    /\ h.transfers = 1 /\ h.xferRet = -1 /\ h.detaches = 1 /\ h.resets = 1
    /\ i = 2 /\ pc = "stage_begin" /\ camp.waited = 5

\* C10: the block size handed to the transfer primitive is the advertised
\* wTransferSize when that is nonzero and 1024 otherwise.
C10_TransferBlockSize ==
    (h.transfers > 0 /\ dfu.exists) =>
        h.xferSize = IF dfu.wTransferSize # 0 THEN dfu.wTransferSize ELSE 1024

\* a transfer to a device that advertises no transfer size
C10_Witness ==
    /\ h.transfers > 0 /\ dfu.exists
    /\ dfu.wTransferSize = 0 /\ h.xferSize = 1024

\* C11: a cache lookup hits only when the stored identity equals the requested
\* one and the cache file exists, is readable and is not empty; when one of
\* these fails at lookup time the lookup misses and the identity marker is
\* cleared, in memory and in the persisted settings.
C11_LookupHitOrCleared ==
    LET valid == cache.hash = "req" /\ FileValid(fs.cacheFile)
    IN  /\ (pc = "pre_extract" /\ camp.lookup = "hit") => (cache.enabled /\ valid)
        /\ (pc = "dl_target" /\ cache.enabled /\ ~valid) =>
               (camp.lookup = "miss" /\ cache.hash = "" /\ cache.stored = "")

\* C12: with caching enabled, the stored identity equal to the requested one
\* and a valid cache file, the acquisition calls downloadImage never and goes
\* straight to the decompression of the cache file.
C12_CacheHitSkipsFetch ==
    /\ pc = "dl_target" =>
          ~(cache.enabled /\ cache.hash = "req" /\ FileValid(fs.cacheFile))
    /\ camp.lookup = "hit" =>
          /\ ~camp.dlCalled /\ ~camp.fetched
          /\ pc \notin {"dl_target", "dl_open", "dl_loop", "dl_ret_false", "dl_ret_true"}
          /\ paths.tempCompressed = "cache"
          /\ pc \in {"pre_extract", "xz_open", "xz_loop"} => FileValid(fs.cacheFile)

\* the decompression loop reads the cache file after a hit
C12_Witness ==
    /\ camp.lookup = "hit" /\ cache.enabled /\ cache.hash = "req"
    /\ pc = "xz_loop" /\ paths.tempCompressed = "cache"
    /\ ~camp.dlCalled

\* the three plan files exist, no image is configured, every probe so far found
\* the device and nothing has failed
HappyBootloaderRun ==
    /\ ~HasImageInfo
    /\ camp.filesChecked /\ \A f \in 1..NumFiles : camp.exists[f]
    /\ ~camp.retried
    /\ ev.error = 0

\* C13 as stated: in such a campaign each progress percentage is greater than
\* the one before it, the last one is the bootloader ceiling 75, and success
\* follows.
C13_StrictlyIncreasingToCeiling ==
    HappyBootloaderRun =>
        /\ ev.strict
        /\ Finished => (ev.last = 75 /\ ev.success = 1)

\* C13: in such a campaign the progress percentages never decrease (a
\* percentage is repeated when only the status text changes), the stage loop
\* ends at 73, progress 75 follows the last stage, and the last event before
\* success() is progress 100.
C13_NonDecreasingThroughCeiling ==
    HappyBootloaderRun =>
        /\ ev.mono
        /\ pc = "boot_done" => ev.last = 73
        /\ pc = "after_boot" => ev.last = 75
        /\ Finished => (ev.last = 100 /\ ev.success = 1 /\ ~ev.strict)
        /\ ev.success = 1 => Finished

\* a bootloader-only campaign that succeeded without a retry
C13_Witness ==
    /\ HappyBootloaderRun
    /\ Finished /\ ev.success = 1 /\ ev.last = 100
    /\ camp.sessions = 3 /\ \A s \in 1..NumFiles : camp.phase[s] = "done"

\* C14: whenever downloadFile fails after the interface was claimed (alt
\* setting, status query, re-query after clear or abort, transfer), the
\* interface has been released before the failure is reported to the caller.
C14_ReleasedBeforeFailure ==
    /\ h.releases <= h.claims
    /\ (pc = "session_failed" /\ h.claims = 1) => h.releases = 1
    /\ h.result \in {"alt_failed", "status_failed", "transfer_failed"} =>
          (h.claims = 1 /\ h.releases = 1)
    /\ (pc = "session_failed" /\ h.result = "claim_failed") =>
          (h.claims = 0 /\ h.releases = 0)

\* the re-query after an abort failed
C14_Witness ==
    /\ pc = "session_failed" /\ h.result = "status_failed"
    /\ h.aborts = 1 /\ h.queries >= 2
    /\ h.claims = 1 /\ h.releases = 1

\* C15: whenever the persisted identity marker names image I and the cache
\* file exists with nonzero size, the cache file holds the complete fetched
\* bytes of I, never a partial download and never another image, whatever mix
\* of fetch successes, fetch failures and decompression failures came before.
C15_CacheHoldsMarkedImage ==
    (Finished /\ cache.stored # "" /\ FileValid(fs.cacheFile)) =>
        fs.cacheFile = cache.stored

\* C16: when run() returns, on success or after any failure, the staging
\* image and the compressed download that is not the cache slot have been
\* removed; only the cache-slot file may remain.
C16_NoStagingFileLeft ==
    Finished => (fs.img = "absent" /\ fs.tmpFile = "absent")

\* C17: at most one device handle is open and at most one session exists at
\* any time; a stage's discovery begins with a session constructed for that
\* stage, after the session before it was destroyed and its handle closed; no
\* session transfers more than once.
C17_OneHandleOneSessionPerStage ==
    /\ camp.openHandles \in 0..1
    /\ camp.liveSessions \in 0..1
    /\ camp.liveSessions = (IF dfu.exists THEN 1 ELSE 0)
    /\ camp.openHandles = (IF dfu.exists /\ dfu.dev_handle THEN 1 ELSE 0)
    /\ pc \in {"find_enter", "find_loop", "find_probe"} =>
          /\ camp.sessions = i
          /\ camp.openHandles = 0
          /\ h.transfers = 0 /\ h.claims = 0 /\ h.closes = 0
    /\ h.transfers <= 1
    /\ Finished => (camp.openHandles = 0 /\ camp.liveSessions = 0)

\* the third stage holds the one open handle after two sessions were destroyed
C17_Witness ==
    /\ i = 3 /\ camp.sessions = 3 /\ pc = "df_xfer"
    /\ dfu.dev_handle /\ camp.openHandles = 1 /\ camp.liveSessions = 1
    /\ camp.phase[1] = "done" /\ camp.phase[2] = "done"

\* C18: in the script-based revision, once the script has been created it is
\* removed on every exit path of run() (start failure, timeout, non-zero exit,
\* success), and no temporary file created for the run remains when run()
\* returns.
C18_ScriptAndTempFilesRemoved ==
    pc = "s_done" => (fs.script = "absent" /\ fs.log = "absent")

\* the script revision alone: the script file itself is gone when run() returns
ScriptFileRemoved ==
    pc = "s_done" => fs.script = "absent"

\* C19: a session starts its transfer only when the most recent status query
\* reported the IDLE state; a device still reported in ERROR, DNLOAD_IDLE,
\* UPLOAD_IDLE or another non-IDLE state after the recovery step never gets a
\* transfer.
C19_TransferOnlyFromIdle ==
    h.transfers > 0 => h.xferState = "dfuIDLE"

\* C20: a session issues at most one clearStatus, at most one abortTransfer
\* and at most three status queries, and when the initial query or a re-query
\* fails the session fails without attempting a transfer.
C20_BoundedStatusRecovery ==
    /\ h.clears <= 1 /\ h.aborts <= 1 /\ h.queries <= 3
    /\ h.queries <= 1 + h.clears + h.aborts
    /\ h.result = "status_failed" =>
          /\ h.transfers = 0 /\ h.detaches = 0 /\ h.resets = 0
          /\ pc \in {"session_failed", "img_ret_false", "done"}
          /\ pc = "done" => (ev.error > 0 /\ ev.success = 0)

\* the third query of a session, after a clear and an abort, failed
C20_Witness ==
    /\ h.result = "status_failed" /\ pc = "session_failed"
    /\ h.queries = 3 /\ h.clears = 1 /\ h.aborts = 1
    /\ h.transfers = 0

\* C21: once the transfer of a session has succeeded, no result of detach and
\* no result of the device reset makes the session fail: every detach step
\* goes on to the reset and every reset step ends in downloadFile returning
\* true, without an error event.
C21_TeardownNeverFails ==
    [][/\ pc = "df_detach" => (pc' = "df_reset" /\ h'.result = h.result /\ ev' = ev)
       /\ pc = "df_reset" => (pc' = "session_ok" /\ h'.result = "ok" /\ ev' = ev)]_vars

\* downloadFile returned true after a transfer that ended with -1 (the device
\* went away), a detach and a reset
C21_Witness ==
    /\ pc = "session_ok" /\ h.result = "ok"
    /\ h.transfers = 1 /\ h.xferRet = -1
    /\ h.detaches = 1 /\ h.resets = 1
    /\ ev.error = 0

\* C22: with resetAfter set and the transfer succeeded, the session issues
\* detach, then reset, and the device handle is closed and cleared before
\* downloadFile returns, whatever detach and reset returned.
C22_DetachResetClose ==
    /\ h.resets <= h.detaches /\ h.detaches <= h.transfers
    /\ pc = "df_detach" =>
          (h.transfers = 1 /\ h.detaches = 0 /\ h.resets = 0 /\ dfu.dev_handle)
    /\ pc = "df_reset" => (h.detaches = 1 /\ h.resets = 0 /\ dfu.dev_handle)
    /\ pc = "session_ok" =>
          /\ h.detaches = 1 /\ h.resets = 1
          /\ ~dfu.dev_handle /\ h.closes = 1 /\ camp.openHandles = 0

\* downloadFile returned after detach, reset and close
C22_Witness ==
    /\ pc = "session_ok" /\ h.result = "ok"
    /\ h.detaches = 1 /\ h.resets = 1 /\ h.closes = 1
    /\ ~dfu.dev_handle /\ dfu.dfuDevice

\* C23: the alternate setting is selected exactly when the matched device has
\* the alt-setting flag; without the flag the session goes from the claim to
\* the status query with no selection, so an alt-setting failure happens only
\* for a device with the flag.
C23_AltSettingIffFlag ==
    /\ pc = "df_setalt" => (dfu.flagsAlt /\ h.claims = 1 /\ h.altSets = 0)
    /\ pc \in {"df_status", "df_clear", "df_abort", "df_xfer", "df_detach",
                "df_reset", "session_ok"} =>
          h.altSets = (IF dfu.flagsAlt THEN 1 ELSE 0)
    /\ (pc = "df_status" /\ ~dfu.flagsAlt) =>
          (h.claims = 1 /\ h.altSets = 0 /\ h.queries = 0)
    /\ (dfu.exists /\ h.altSets > 0) => dfu.flagsAlt
    /\ (pc = "session_failed" /\ h.result = "alt_failed") =>
          (dfu.flagsAlt /\ h.altSets = 1)

\* a device without the flag stands before its status query
C23_Witness ==
    /\ pc = "df_status" /\ ~dfu.flagsAlt /\ dfu.dev_handle
    /\ h.claims = 1 /\ h.altSets = 0

\* C24: the stored identity marker (in memory and persisted) changes only in
\* the step that follows a download which returned true while caching is
\* enabled, and then to the requested identity; a failed fetch, a cache hit
\* and a run with caching disabled leave it as it was.
C24_MarkerOnlyAfterFetch ==
    [][/\ (cache'.stored # cache.stored \/ cache'.hash # cache.hash) =>
             /\ pc = "dl_ret_true" /\ cache.enabled
             /\ camp.lookup = "miss" /\ camp.dlCalled /\ ~camp.fetchError
             /\ cache'.stored = expectedHash /\ cache'.hash = expectedHash
       /\ (pc = "dl_ret_true" /\ cache.enabled) =>
             (cache'.stored = expectedHash /\ cache'.hash = expectedHash)
       /\ (pc = "dl_ret_false" \/ camp.lookup = "hit" \/ ~cache.enabled) =>
             (cache'.stored = cache.stored /\ cache'.hash = cache.hash)]_vars

\* a fetch after a miss has completed with caching enabled and the marker
\* names the requested image
C24_Witness ==
    /\ pc = "pre_extract" /\ camp.fetched /\ camp.lookup = "miss"
    /\ cache.enabled /\ camp.markerSet
    /\ cache.stored = expectedHash /\ cache.hash = expectedHash
    /\ fs.cacheFile = "req"

\* C25: when a fetch into the cache slot ends with a network error, no
\* partially written cache file exists once the campaign has returned.
C25_FailedFetchLeavesNoCacheFile ==
    (Finished /\ camp.fetchError /\ paths.tempCompressed = "cache") =>
        fs.cacheFile = "absent"

\* the compressed source after extractXzFile has returned to run()
ExtractionOver ==
    /\ paths.extractedImage # ""
    /\ pc \notin {"xz_open", "xz_loop", "xz_ret_true", "xz_ret_false"}

\* C26: once decompression is over, with success or failure, the compressed
\* source is gone exactly when it is not the cache-slot file; the cache-slot
\* file stays where it is and no step of the decompression changes it.
C26_CompressedRemovedUnlessCacheSlot ==
    /\ [](ExtractionOver =>
            /\ paths.tempCompressed = "tmp" =>
                  (fs.tmpFile = "absent" /\ ~cache.enabled)
            /\ paths.tempCompressed = "cache" =>
                  (fs.cacheFile # "absent" /\ fs.tmpFile = "absent")
            /\ paths.tempCompressed \in {"tmp", "cache"})
    /\ [][(pc \in {"pre_extract", "xz_open", "xz_loop", "xz_ret_true",
                    "xz_ret_false"}) => (fs'.cacheFile = fs.cacheFile)]_vars

\* a failed decompression of the cache-slot file has left that file in place
C26_Witness ==
    /\ pc = "done" /\ camp.acquisitionFailed /\ paths.extractedImage # ""
    /\ paths.tempCompressed = "cache" /\ fs.cacheFile = "req"
    /\ fs.img = "absent"

\* C30: a failed write to the cache slot during a fetch disables caching for
\* the rest of the run, the partial cache file is gone when the run ends, and
\* the stored identity is not set to the identity of the new image.
C30_SlotWriteFailureDisablesCaching ==
    camp.slotWriteFailed =>
        /\ ~cache.enabled
        /\ Finished => (fs.cacheFile = "absent" /\ ~camp.markerSet)

\* C27: a 5 second settle wait lies between each successful bootloader stage
\* and the creation and discovery of the next stage's session, none follows
\* the last bootloader stage, and a 10 second wait lies before the image
\* stage's session and discovery; the waits are never shorter.
C27_SettleWaits ==
    /\ i = 1 => camp.waited = 0
    /\ i \in 2..NumFiles => camp.waited = 5
    /\ pc \in {"boot_done", "after_boot"} => camp.waited = 0
    /\ (i = ImgStage /\ pc \notin {"boot_done", "after_boot", "done"}) =>
          camp.waited = 10
    /\ camp.phase[ImgStage] # "none" => camp.waited = 10

\* discovery for the second bootloader file runs after the settle wait
C27_Witness ==
    /\ pc = "find_probe" /\ i = 2 /\ camp.phase[1] = "done"
    /\ camp.waited = 5 /\ h.probes = 0

\* C29: every discovery probe comes right after the device list was cleared,
\* so after a probe the list holds a device exactly when that probe found
\* one, and the device a session selects is the one its latest probe found.
C29_ProbeOnClearedList ==
    /\ [](/\ pc \in {"stage_begin", "img_begin", "init", "find_enter",
                      "find_loop", "find_probe"} => ~usb.dfu_root
          /\ (pc = "find_after" /\ usb.dfu_root) =>
                (h.probes >= 1 /\ h.foundAt = h.probes)
          /\ dfu.dfuDevice => usb.dfu_root)
    /\ [][(pc = "find_probe") =>
             /\ h'.probes = h.probes + 1
             /\ usb'.dfu_root <=> (h'.foundAt = h'.probes)
             /\ pc' = (IF h'.foundAt = h'.probes THEN "find_after"
                       ELSE "find_loop")]_vars

\* the second session's third probe found the device that is then selected
C29_Witness ==
    /\ pc = "find_after" /\ i = 2 /\ camp.sessions = 2
    /\ usb.dfu_root /\ h.probes = 3 /\ h.foundAt = 3

\* the image stage's session was created
ImageSession == camp.sessions > NumFiles

\* C28: the image stage (alt-setting "rawemmc") runs exactly when acquisition
\* produced a staging file, which it does exactly when board, image type and
\* distro are all non-empty; it runs after all bootloader stages succeeded,
\* and the staging file is deleted after it, whether it succeeded or failed.
C28_ImageStageIffStagingFile ==
    LET allGiven == info.board /\ info.imageType /\ info.distro
        bootDone == \A s \in 1..NumFiles : camp.phase[s] = "done"
    IN  /\ paths.extractedImage # "" => allGiven
        /\ ~allGiven => (fs.img = "absent" /\ ~ImageSession)
        /\ (allGiven /\ camp.filesChecked) => paths.extractedImage # ""
        /\ (allGiven /\ camp.filesChecked /\ ~Finished /\ ~ImageSession) =>
              fs.img = "req"
        /\ ImageSession =>
              /\ allGiven /\ paths.extractedImage # "" /\ bootDone
              /\ i = ImgStage /\ AltNameOf(i) = "rawemmc"
        /\ (ImageSession /\ pc \in {"find_loop", "find_probe", "find_after"}) =>
              usb.match_iface_alt_name = "rawemmc"
        /\ (ImageSession /\ pc \notin {"img_ret_false", "img_ret_true", "done"}) =>
              fs.img = "req"
        /\ (Finished /\ bootDone) => (ImageSession <=> paths.extractedImage # "")
        /\ (Finished /\ bootDone) => (ImageSession <=> allGiven)
        /\ (Finished /\ ImageSession) => fs.img = "absent"

\* the image stage failed after all bootloader stages and the staging file
\* is gone
C28_Witness ==
    /\ Finished /\ ImageSession /\ camp.phase[ImgStage] = "failed"
    /\ \A s \in 1..NumFiles : camp.phase[s] = "done"
    /\ fs.img = "absent" /\ paths.extractedImage = "img" /\ ev.error > 0

\* C31 as stated: with resetAfter false a successful transfer issues neither
\* detach nor reset and the device handle is closed when downloadFile returns.
C31_NoResetEndsClosed ==
    (pc = "session_ok" /\ ~dfu.resetAfter) =>
        (h.detaches = 0 /\ h.resets = 0 /\ ~dfu.dev_handle)

\* C31 amended: with resetAfter false a successful transfer issues neither
\* detach nor reset and downloadFile returns with the interface released and
\* the device handle still open; the handle is closed exactly once, by the
\* cleanup() that follows.
C31_NoResetLeavesHandleToCleanup ==
    /\ pc \in {"df_detach", "df_reset"} => dfu.resetAfter
    /\ (pc = "session_ok" /\ ~dfu.resetAfter) =>
          /\ h.transfers = 1 /\ h.releases = 1
          /\ h.detaches = 0 /\ h.resets = 0
          /\ dfu.dev_handle /\ h.closes = 0 /\ camp.openHandles = 1
    /\ (pc = "session_ok" /\ dfu.resetAfter) =>
          (h.detaches = 1 /\ h.resets = 1 /\ ~dfu.dev_handle /\ h.closes = 1)
    /\ (pc = "cleaned" /\ h.result = "ok") =>
          /\ ~dfu.dev_handle /\ h.closes = 1 /\ camp.openHandles = 0
          /\ ~dfu.resetAfter => (h.detaches = 0 /\ h.resets = 0)

\* a transfer without reset has succeeded and cleanup() has closed the handle
C31_Witness ==
    /\ pc = "cleaned" /\ ~dfu.resetAfter /\ h.result = "ok"
    /\ h.transfers = 1 /\ h.detaches = 0 /\ h.resets = 0 /\ h.closes = 1

\* C36: cleanup is idempotent: whatever state the session is in (never
\* initialized, no device, device found, handle closed by the reset), the
\* destructor's cleanup after a cleanup() closes nothing, exits nothing and
\* changes nothing but the object's being gone; over the two calls the
\* handle is closed at most once and the USB context is left at most once.
C36_CleanupIdempotent ==
    /\ [](/\ h.closes <= 1 /\ h.exits <= 1
          /\ camp.openHandles \in {0, 1} /\ camp.liveContexts \in {0, 1}
          /\ pc \in {"cleaned", "deleted"} =>
                /\ ~dfu.dev_handle /\ ~dfu.dfuDevice /\ ~dfu.usbContext
                /\ ~dfu.initialized /\ ~usb.dfu_root
                /\ camp.openHandles = 0 /\ camp.liveContexts = 0)
    /\ [][(pc = "cleaned") =>
             /\ h' = h /\ usb' = usb
             /\ dfu' = [dfu EXCEPT !.exists = FALSE]
             /\ camp' = [camp EXCEPT !.liveSessions = @ - 1]]_vars

\* cleanup() has closed the open handle of a found device and left the USB
\* context; the destructor's cleanup is next
C36_Witness ==
    /\ pc = "cleaned" /\ h.result = "claim_failed" /\ dfu.exists
    /\ h.closes = 1 /\ h.exits = 1 /\ camp.liveSessions = 1

\* C35: on every path through downloadFile a successful interface claim is
\* matched by exactly one release before downloadFile returns, and on the
\* success path the release comes after the transfer and before detach and
\* reset.
C35_OneReleasePerClaim ==
    /\ h.claims <= 1 /\ h.releases <= h.claims
    /\ pc \in {"df_setalt", "df_status", "df_clear", "df_abort", "df_xfer"} =>
          (h.claims = 1 /\ h.releases = 0 /\ h.transfers = 0)
    /\ pc \in {"df_detach", "df_reset"} =>
          (h.claims = 1 /\ h.releases = 1 /\ h.transfers = 1)
    /\ pc = "df_detach" => (h.detaches = 0 /\ h.resets = 0)
    /\ pc \in {"session_ok", "session_failed"} => h.releases = h.claims
    /\ pc = "session_ok" => (h.claims = 1 /\ h.releases = 1)
    /\ h.result = "claim_failed" => (h.claims = 0 /\ h.releases = 0)

\* the interface was released after the transfer; detach is next
C35_Witness ==
    /\ pc = "df_detach" /\ h.claims = 1 /\ h.transfers = 1
    /\ h.releases = 1 /\ h.detaches = 0 /\ h.resets = 0

\* C37: at every discovery probe the process-wide match criteria are those
\* of the findDevice call in progress: the vendor and product of the TI
\* device and the alt-setting name of the stage (bootloader, tispl.bin,
\* u-boot.img, rawemmc), none for an empty name; nothing an earlier session
\* left in the globals is still in effect.
C37_MatchCriteriaOfCurrentStage ==
    pc \in {"find_loop", "find_probe", "find_after"} =>
        /\ usb.match_vendor = 1105
        /\ usb.match_product = 24933
        /\ usb.match_iface_alt_name =
              (IF i = 0 THEN "null"
               ELSE <<"bootloader", "tispl.bin", "u-boot.img", "rawemmc">>[i])

\* a probe of a call with an empty name is about to run
C37_Witness ==
    /\ pc = "find_probe" /\ i = 0 /\ h.probes = 1
    /\ usb.match_iface_alt_name = "null" /\ usb.match_vendor = TI_VENDOR_ID

\* C40: when the campaign has returned, on any path, no device handle is
\* open, no USB context a session created is live and no session is left.
C40_NothingLeftOpen ==
    /\ camp.openHandles \in {0, 1} /\ camp.liveContexts \in {0, 1}
    /\ Finished =>
          /\ camp.openHandles = 0 /\ camp.liveContexts = 0
          /\ camp.liveSessions = 0
          /\ ~dfu.exists /\ ~dfu.dev_handle /\ ~dfu.usbContext
          /\ h.closes <= 1 /\ h.exits <= 1
          /\ h.result \in {"claim_failed", "alt_failed", "status_failed",
                            "transfer_failed", "ok"} =>
                (h.closes = 1 /\ h.exits = 1)
          /\ h.result \in {"not_found", "open_failed"} =>
                (h.closes = 0 /\ h.exits = 1)
          /\ h.result = "init_failed" => (h.closes = 0 /\ h.exits = 0)

\* a campaign has returned after a failed transfer, its handle closed and
\* its USB context left by the destructor
C40_Witness ==
    /\ Finished /\ h.result = "transfer_failed"
    /\ h.closes = 1 /\ h.exits = 1
    /\ camp.openHandles = 0 /\ camp.liveContexts = 0 /\ camp.liveSessions = 0

\* C32: with caching disabled a campaign fetches into the throwaway file and
\* leaves the cache slot alone: no step of the campaign creates, writes or
\* deletes the cache file, and none changes the stored identity marker.
C32_DisabledCacheUntouched ==
    /\ [](~cache.enabled =>
            /\ paths.tempCompressed \in {"", "tmp"}
            /\ camp.lookup # "hit"
            /\ ~camp.markerSet)
    /\ [][(~cache.enabled /\ ~(pc = "run" /\ pc' = "run")) =>
             /\ fs'.cacheFile = fs.cacheFile
             /\ cache' = cache]_vars

\* a fetch with caching disabled has completed into the throwaway file while
\* the cache slot holds another image under its marker
C32_Witness ==
    /\ pc = "pre_extract" /\ ~cache.enabled /\ camp.fetched
    /\ paths.tempCompressed = "tmp" /\ fs.tmpFile = "req"
    /\ fs.cacheFile = "other" /\ cache.stored = "other"

\* C33: after the k-th bootloader stage of the n-stage plan has succeeded the
\* reported percentage is 55 + k * floor(20 / n): every stage adds the same
\* share of the 55-75 range, and the value after the last stage is at most 75.
C33_EqualShareProgress ==
    pc \in {"stage_begin", "boot_done"} =>
        /\ i - 1 \in 0..NumFiles
        /\ \A s \in 1..(i - 1) : camp.phase[s] = "done"
        /\ currentProgress = 55 + (i - 1) * (20 \div NumFiles)
        /\ i > 1 => ev.last = 55 + (i - 1) * (20 \div NumFiles)
        /\ currentProgress <= 75
        /\ pc = "boot_done" => (i - 1 = NumFiles /\ ev.last = 73)

\* the first stage has succeeded and 61 was reported
C33_Witness ==
    /\ pc = "stage_begin" /\ i = 2 /\ camp.phase[1] = "done"
    /\ currentProgress = 61 /\ ev.last = 61

\* C38: a campaign never emits both success() and error(): after an error
\* event neither a success nor a progress event follows, and after success()
\* no event of any kind follows.
C38_TerminalEventsExclusive ==
    /\ ~(ev.success > 0 /\ ev.error > 0)
    /\ ~ev.successAfterError /\ ~ev.errorAfterSuccess
    /\ ~ev.progressAfterTerminal
    /\ ev.success <= 1
    /\ ev.success = 1 => Finished

\* a campaign has returned after the errors of a failed download, with
\* nothing but errors emitted since the first one
C38_Witness ==
    /\ Finished /\ camp.fetchError /\ ev.error = 2 /\ ev.success = 0
    /\ ev.last \in 5..40 /\ ~ev.progressAfterTerminal

\* C39: when every external call returns, every campaign terminates and by
\* then has emitted a terminal event: a stage probes at most 15 times and
\* queries the status at most 3 times, the stage loop runs at most once per
\* plan entry, and run() does not return without success() or error().
C39_CampaignTerminates ==
    /\ <>(Finished /\ Terminals >= 1)
    /\ [](/\ h.probes <= 15 /\ attempt <= 15
          /\ h.queries <= 3
          /\ camp.sessions <= NumFiles + 1
          /\ \A s \in 1..NumFiles : camp.phase[s] # "none" => camp.sessions >= s
          /\ dfu.exists => camp.sessions = i
          /\ Finished => Terminals >= 1)

\* a campaign has returned with error() after a stage used all 15 probes
C39_Witness ==
    /\ Finished /\ Terminals = 1 /\ ev.error = 1
    /\ h.result = "not_found" /\ h.probes = 15 /\ camp.sessions = 1

\* C34: every progress and terminal event of a campaign is produced by the one
\* background task, in program order, and no progress event - download
\* progress included - is produced by another thread or after the acquisition
\* step it belongs to has returned.
C34_SingleProducerWithinStep ==
    /\ camp.producedElsewhere = 0
    /\ ~camp.producedAfterReturn

====
